---- MODULE Spec2Model ----
(***************************************************************************)
(* A model of paceutils.helpers.Helpers: the query executor               *)
(* (single_value_query, fetchall_query, dataframe_query, create_plot_df), *)
(* and the period utilities (month_to_date .. prev_quarter_dates).        *)
(*                                                                         *)
(* Dates are records [y, m, d]; the texts the code passes around          *)
(* ('YYYY-MM-DD') are sequences of one-character strings, produced by     *)
(* strftime / str and read back by strptime, so formatting and parsing    *)
(* are modelled by what they do.                                           *)
(***************************************************************************)
EXTENDS Integers, Sequences, FiniteSets, TLC

VARIABLES now, ret, store, openConns, db_filepath, init_arg, threads

vars == <<now, ret, store, openConns, db_filepath, init_arg, threads>>

---------------------------------------------------------------------------
(* Bounds of the model *)

\* first calendar year of the clock and of the periods given as input
FirstYear == 2023
\* number of consecutive years covered (2024 is a leap year)
NumYears == 2
\* input periods end up to MaxSpan days after their start
MaxSpan == 1
\* the periods given to the loopers end up to MaxLoopMonths months after
\* the month they start in
MaxLoopMonths == 3
\* the store holds at most MaxRows rows
MaxRows == 2
\* at most MaxOpen connections are left open before the finalizer must run
MaxOpen == 2

Years == FirstYear .. (FirstYear + NumYears - 1)

---------------------------------------------------------------------------
(* The calendar: calendar.monthrange, datetime, timedelta, relativedelta *)

isleap(y) == (y % 4 = 0) /\ ((y % 100 # 0) \/ (y % 400 = 0))

\* calendar.monthrange(year, month)[1]: the number of days of the month
monthrange(y, m) ==
    IF m = 2 THEN (IF isleap(y) THEN 29 ELSE 28)
    ELSE IF m \in {4, 6, 9, 11} THEN 30 ELSE 31

Date(y, m, d) == [y |-> y, m |-> m, d |-> d]

\* datetime.replace(day=1)
replace_day1(dt) == Date(dt.y, dt.m, 1)

\* timedelta(days=1) left out: the end of a window is the first day of the
\* current month itself
minus_no_day(dt) == dt

\* dt - datetime.timedelta(days=1)
minus_one_day(dt) ==
    IF dt.d > 1 THEN Date(dt.y, dt.m, dt.d - 1)
    ELSE IF dt.m > 1 THEN Date(dt.y, dt.m - 1, monthrange(dt.y, dt.m - 1))
    ELSE Date(dt.y - 1, 12, 31)

\* the clock moving to the next calendar day
next_day(dt) ==
    IF dt.d < monthrange(dt.y, dt.m) THEN Date(dt.y, dt.m, dt.d + 1)
    ELSE IF dt.m < 12 THEN Date(dt.y, dt.m + 1, 1)
    ELSE Date(dt.y + 1, 1, 1)

\* dt - relativedelta(months=n), n >= 0.  relativedelta normalises months
\* beyond 11 into years (_fix), moves year and month, and then clips the
\* day to the length of the month it lands in (__radd__).
minus_relativedelta(dt, n) ==
    LET years  == n \div 12
        months == n % 12
        y0     == dt.y - years
        m0     == dt.m - months
        yr     == IF m0 < 1 THEN y0 - 1 ELSE y0
        mo     == IF m0 < 1 THEN m0 + 12 ELSE m0
        last   == monthrange(yr, mo)
    IN  Date(yr, mo, IF dt.d < last THEN dt.d ELSE last)

---------------------------------------------------------------------------
(* Texts: str(int), strftime('%Y-%m-%d'), strptime(text, '%Y-%m-%d') *)

DigitChars == <<"0", "1", "2", "3", "4", "5", "6", "7", "8", "9">>

DigitSet == {DigitChars[i] : i \in 1..10}

\* str(n) of a non-negative int: decimal digits, no padding
RECURSIVE str(_)
str(n) ==
    IF n < 10 THEN <<DigitChars[n + 1]>>
    ELSE str(n \div 10) \o <<DigitChars[(n % 10) + 1]>>

\* a field of strftime: the decimal digits, zero-padded on the left to w
RECURSIVE zero_pad(_, _)
zero_pad(s, w) == IF Len(s) >= w THEN s ELSE zero_pad(<<"0">> \o s, w)

\* dt.strftime("%Y-%m-%d") (years of four digits, as in Years)
strftime(dt) ==
    zero_pad(str(dt.y), 4) \o <<"-">> \o zero_pad(str(dt.m), 2)
        \o <<"-">> \o zero_pad(str(dt.d), 2)

\* the fields of a text between its "-" separators
RECURSIVE split_dash(_, _, _)
split_dash(s, cur, acc) ==
    IF s = <<>> THEN Append(acc, cur)
    ELSE IF Head(s) = "-" THEN split_dash(Tail(s), <<>>, Append(acc, cur))
    ELSE split_dash(Tail(s), Append(cur, Head(s)), acc)

digit_value(c) == CHOOSE k \in 0..9 : DigitChars[k + 1] = c

\* int(field) of a field of digits
RECURSIVE int_of(_)
int_of(f) ==
    IF f = <<>> THEN 0
    ELSE 10 * int_of(SubSeq(f, 1, Len(f) - 1)) + digit_value(f[Len(f)])

\* what strptime raises on a text that is no date
ValueError == Date(0, 0, 0)

\* datetime.datetime.strptime(text, "%Y-%m-%d"): %Y takes four digits, %m
\* and %d one or two, and the fields must name a day of the calendar
strptime(text) ==
    LET f == split_dash(text, <<>>, <<>>)
    IN  IF /\ Len(f) = 3
           /\ \A i \in 1..3 : \A j \in 1..Len(f[i]) : f[i][j] \in DigitSet
           /\ Len(f[1]) = 4
           /\ Len(f[2]) \in 1..2
           /\ Len(f[3]) \in 1..2
        THEN LET y == int_of(f[1])
                 m == int_of(f[2])
                 d == int_of(f[3])
             IN  IF y >= 1 /\ m \in 1..12 /\ d >= 1 /\ d <= monthrange(y, m)
                 THEN Date(y, m, d)
                 ELSE ValueError
        ELSE ValueError

---------------------------------------------------------------------------
(* Period utilities.  Each takes the reading(s) of datetime.datetime.now()
   it makes as arguments and returns the pair of texts the code returns. *)

\* month_to_date that returns its two bounds in the wrong order
month_to_date_swapped(read1, read2) ==
    LET start_date == replace_day1(read1)
        end_date   == read2
    IN  <<strftime(end_date), strftime(start_date)>>

\* month_to_date that forgets replace(day=1)
month_to_date_noreplace(read1, read2) ==
    <<strftime(read1), strftime(read2)>>

\* Helpers.month_to_date: now() is read twice, once for each bound
month_to_date(read1, read2) ==
    LET start_date == replace_day1(read1)
        end_date   == read2
    IN  <<strftime(start_date), strftime(end_date)>>

\* last_month etc. taking the end from the reading itself, not from the
\* first of its month
last_n_months_endfromread(read, n) ==
    LET today      == replace_day1(read)
        start_date == minus_relativedelta(today, n)
        end_date   == minus_one_day(read)
    IN  <<strftime(start_date), strftime(end_date)>>

\* the common body of last_month, last_three_months, last_six_months and
\* last_year, which differ in the number of months only
last_n_months(read, n) ==
    LET today      == replace_day1(read)
        start_date == minus_relativedelta(today, n)
        end_date   == minus_one_day(today)
    IN  <<strftime(start_date), strftime(end_date)>>

last_month(read) == last_n_months(read, 1)

last_three_months(read) == last_n_months(read, 3)

last_six_months(read) == last_n_months(read, 6)

last_year(read) == last_n_months(read, 12)

\* get_quarter_dates without the padding of one-digit months
get_quarter_dates_nopad(q, yr) ==
    LET q_month_start == 3 * q - 2
        q_month_end   == 3 * q
        start_date == str(yr) \o <<"-">> \o str(q_month_start) \o <<"-", "0", "1">>
        end_date   == str(yr) \o <<"-">> \o str(q_month_end) \o <<"-">>
                          \o str(monthrange(yr, q_month_end))
    IN  <<start_date, end_date>>

\* Helpers.get_quarter_dates
get_quarter_dates(q, yr) ==
    LET q_month_start == 3 * q - 2
        q_month_end   == 3 * q
        s0 == str(q_month_start)
        e0 == str(q_month_end)
        q_month_start_str == IF Len(s0) = 1 THEN <<"0">> \o s0 ELSE s0
        q_month_end_str   == IF Len(e0) = 1 THEN <<"0">> \o e0 ELSE e0
        start_date == str(yr) \o <<"-">> \o q_month_start_str \o <<"-", "0", "1">>
        end_date   == str(yr) \o <<"-">> \o q_month_end_str \o <<"-">>
                          \o str(monthrange(yr, q_month_end))
    IN  <<start_date, end_date>>

\* last_quarter that forgets to step the year back from a first quarter
last_quarter_q_sameyear(read) ==
    LET today == replace_day1(read)
        q     == (today.m - 1) \div 3 + 1
        yr    == today.y
    IN  IF q = 1 THEN <<4, yr>> ELSE <<q - 1, yr>>

\* Helpers.last_quarter: the (q, yr) it settles on
last_quarter_q(read) ==
    LET today == replace_day1(read)
        q     == (today.m - 1) \div 3 + 1
        yr    == today.y
    IN  IF q = 1 THEN <<4, yr - 1>> ELSE <<q - 1, yr>>

\* Helpers.last_quarter
last_quarter(read, return_q) ==
    LET lq == last_quarter_q(read)
    IN  IF return_q THEN lq ELSE get_quarter_dates(lq[1], lq[2])

\* Helpers.quarter_to_date
quarter_to_date(read) ==
    LET today == replace_day1(read)
        q     == (today.m - 1) \div 3 + 1
        yr    == today.y
    IN  get_quarter_dates(q, yr)

\* Helpers.prev_month_dates
prev_month_dates(params) ==
    LET param_0 == minus_relativedelta(strptime(params[1]), 1)
        param_1 == minus_relativedelta(strptime(params[2]), 1)
    IN  <<strftime(param_0), strftime(param_1)>>

\* Helpers.prev_quarter_dates
prev_quarter_dates(params) ==
    LET param_0 == minus_relativedelta(strptime(params[1]), 3)
        param_1 == minus_relativedelta(strptime(params[2]), 3)
    IN  <<strftime(param_0), strftime(param_1)>>

---------------------------------------------------------------------------
(* The state: the clock, the store, the open connections, the outcome
   of the last call, the path the object holds and the path its
   constructor was given, and the calls in progress in threads *)

\* no call has been made since the clock last moved
Idle == [op |-> "idle", at |-> Date(0, 0, 0), arg |-> <<>>,
         status |-> "none", val |-> <<>>, opened |-> 0, closed |-> 0]

\* a call of a period utility, which opens no connection
Returned(op, at, arg, val) ==
    [op |-> op, at |-> at, arg |-> arg, status |-> "returned", val |-> val,
     opened |-> 0, closed |-> 0]

DefaultPath == "PaceDashboard.db"

\* the default of Agg's constructor
AggDefaultPath == "agg.db"

\* the classes of the library that have a constructor of their own, and
\* the arguments a caller constructs them with: none, or a path
Classes == {"Helpers", "Agg"}

ConstructorArgs == {<<>>, <<"other.db">>}

\* Helpers.__init__: the value of self.db_filepath when it returns
Helpers_init(args) == IF args = <<>> THEN DefaultPath ELSE args[1]

\* an Agg constructor that stops after super().__init__()
Agg_init_superonly(args) == Helpers_init(<<>>)

\* Agg.__init__: super().__init__() sets the default of Helpers, then
\* self.db_filepath is set again from the argument
Agg_init(args) ==
    LET after_super == Helpers_init(<<>>)
    IN  IF args = <<>> THEN AggDefaultPath ELSE args[1]

InitCommon ==
    /\ now = Date(FirstYear, 1, 1)
    /\ ret = Idle
    /\ store = <<>>
    /\ openConns = 0
    /\ db_filepath = DefaultPath
    /\ init_arg = DefaultPath
    /\ threads = <<>>

---------------------------------------------------------------------------
(* Specification SpecClock: the utilities that read the clock *)

\* a day passes between two calls
Tick ==
    /\ next_day(now).y \in Years
    /\ now' = next_day(now)
    /\ ret' = Idle
    /\ UNCHANGED <<store, openConns, db_filepath, init_arg, threads>>

\* the clock may reach midnight between the two readings of one call
MonthToDate ==
    \E read2 \in {now, next_day(now)} :
        /\ read2.y \in Years
        /\ now' = read2
        /\ ret' = Returned("month_to_date", now, <<read2>>, month_to_date(now, read2))
        /\ UNCHANGED <<store, openConns, db_filepath, init_arg, threads>>

LastMonth ==
    /\ ret' = Returned("last_month", now, <<>>, last_month(now))
    /\ UNCHANGED <<now, store, openConns, db_filepath, init_arg, threads>>

LastThreeMonths ==
    /\ ret' = Returned("last_three_months", now, <<>>, last_three_months(now))
    /\ UNCHANGED <<now, store, openConns, db_filepath, init_arg, threads>>

LastSixMonths ==
    /\ ret' = Returned("last_six_months", now, <<>>, last_six_months(now))
    /\ UNCHANGED <<now, store, openConns, db_filepath, init_arg, threads>>

LastYear ==
    /\ ret' = Returned("last_year", now, <<>>, last_year(now))
    /\ UNCHANGED <<now, store, openConns, db_filepath, init_arg, threads>>

LastQuarter ==
    \E return_q \in BOOLEAN :
        /\ ret' = Returned("last_quarter", now, <<return_q>>,
                           last_quarter(now, return_q))
        /\ UNCHANGED <<now, store, openConns, db_filepath, init_arg, threads>>

QuarterToDate ==
    /\ ret' = Returned("quarter_to_date", now, <<>>, quarter_to_date(now))
    /\ UNCHANGED <<now, store, openConns, db_filepath, init_arg, threads>>

NextClock ==
    \/ Tick
    \/ MonthToDate
    \/ LastMonth
    \/ LastThreeMonths
    \/ LastSixMonths
    \/ LastYear
    \/ LastQuarter
    \/ QuarterToDate

SpecClock == InitCommon /\ [][NextClock]_vars

---------------------------------------------------------------------------
(* Specification SpecShift: the utilities that take their input as
   arguments *)

\* every day of the years of the model
AllDates ==
    {Date(y, m, d) : y \in Years, m \in 1..12, d \in 1..31} \ 
    {dt \in {Date(y, m, d) : y \in Years, m \in 1..12, d \in 29..31} :
        dt.d > monthrange(dt.y, dt.m)}

RECURSIVE plus_days(_, _)
plus_days(dt, k) == IF k = 0 THEN dt ELSE plus_days(next_day(dt), k - 1)

last_of_month(dt) == Date(dt.y, dt.m, monthrange(dt.y, dt.m))

last_of_quarter_from(dt) ==
    LET m3 == dt.m + 2
    IN  IF m3 > 12 THEN last_of_month(Date(dt.y + 1, m3 - 12, 1))
        ELSE last_of_month(Date(dt.y, m3, 1))

\* the periods given to prev_month_dates and prev_quarter_dates that start
\* on day s: the end is a few days later, or at the end of the start's
\* month, or at the end of the third month from the start
PeriodsFrom(s) ==
    {<<strftime(s), strftime(e)>> :
        e \in {plus_days(s, k) : k \in 0..MaxSpan}
                \cup {last_of_month(s), last_of_quarter_from(s)}}

InputPeriods == UNION {PeriodsFrom(s) : s \in AllDates}

\* the caller drops the result of the last call before making the next
Discard ==
    /\ ret # Idle
    /\ ret' = Idle
    /\ UNCHANGED <<now, store, openConns, db_filepath, init_arg, threads>>

GetQuarterDates ==
    \E q \in 1..4, yr \in Years :
        /\ ret = Idle
        /\ ret' = Returned("get_quarter_dates", now, <<q, yr>>,
                           get_quarter_dates(q, yr))
        /\ UNCHANGED <<now, store, openConns, db_filepath, init_arg, threads>>

PrevMonthDates ==
    \E params \in InputPeriods :
        /\ ret = Idle
        /\ ret' = Returned("prev_month_dates", now, params, prev_month_dates(params))
        /\ UNCHANGED <<now, store, openConns, db_filepath, init_arg, threads>>

PrevQuarterDates ==
    \E params \in InputPeriods :
        /\ ret = Idle
        /\ ret' = Returned("prev_quarter_dates", now, params, prev_quarter_dates(params))
        /\ UNCHANGED <<now, store, openConns, db_filepath, init_arg, threads>>

NextShift ==
    \/ GetQuarterDates
    \/ PrevMonthDates
    \/ PrevQuarterDates
    \/ Discard

SpecShift == InitCommon /\ [][NextShift]_vars

---------------------------------------------------------------------------
(* Specification SpecPeriods: every period utility, called as the days
   pass.  The periods given to prev_month_dates and prev_quarter_dates
   here start on the day of the call, so that over the days of the clock
   they are the periods of InputPeriods. *)

PrevMonthDatesOfToday ==
    \E params \in PeriodsFrom(now) :
        /\ ret' = Returned("prev_month_dates", now, params, prev_month_dates(params))
        /\ UNCHANGED <<now, store, openConns, db_filepath, init_arg, threads>>

PrevQuarterDatesOfToday ==
    \E params \in PeriodsFrom(now) :
        /\ ret' = Returned("prev_quarter_dates", now, params,
                           prev_quarter_dates(params))
        /\ UNCHANGED <<now, store, openConns, db_filepath, init_arg, threads>>

QuarterDatesOfYear ==
    \E q \in 1..4 :
        /\ ret' = Returned("get_quarter_dates", now, <<q, now.y>>,
                           get_quarter_dates(q, now.y))
        /\ UNCHANGED <<now, store, openConns, db_filepath, init_arg, threads>>

NextPeriods ==
    \/ Tick
    \/ MonthToDate
    \/ LastMonth
    \/ LastThreeMonths
    \/ LastSixMonths
    \/ LastYear
    \/ LastQuarter
    \/ QuarterToDate
    \/ QuarterDatesOfYear
    \/ PrevMonthDatesOfToday
    \/ PrevQuarterDatesOfToday

SpecPeriods == InitCommon /\ [][NextPeriods]_vars

---------------------------------------------------------------------------
(* The store and the query executor.

   The store is one table of rows (member_id, month).  A query is one of
   three texts: "all" selects every row and has no placeholder, "where"
   selects the rows of the month bound to its one placeholder, "bad" is
   malformed.  sqlite3.connect raises when the file cannot be opened. *)

\* None / SQL NULL
NULL == "NULL"

\* what the first column of a row holds: NULL, the integers 0 and 1, a text
FirstColumn == {NULL, "0", "1", "a"}

\* the months of the second column, in calendar order
MonthOrder == <<"2024-01", "2024-02">>

SecondColumn == {MonthOrder[i] : i \in 1..Len(MonthOrder)}

Rows == FirstColumn \X SecondColumn

Queries == {"all", "where", "bad"}

placeholders(q) == IF q = "where" THEN 1 ELSE 0

ParamLists == {<<>>} \cup {<<v>> : v \in SecondColumn}

\* cursor.execute(q, params) over the rows of the store: the rows of the
\* result in the table's order, or the error sqlite3 raises
execute(q, params, rows) ==
    IF q = "bad" THEN [err |-> "OperationalError", rows |-> <<>>]
    ELSE IF Len(params) # placeholders(q)
         THEN [err |-> "ProgrammingError", rows |-> <<>>]
    ELSE IF q = "where"
         THEN LET match(r) == r[2] = params[1]
              IN  [err |-> "none", rows |-> SelectSeq(rows, match)]
    ELSE [err |-> "none", rows |-> rows]

\* how a call ends: returned or raised, with what, and how many
\* connections it opened and how many of them it closed itself
Outcome(status, val, opened, closed) ==
    [status |-> status, val |-> val, opened |-> opened, closed |-> closed]

\* the zero a scalar query returns for no row or a NULL
ZeroDefault == "0"

\* single_value_query that turns a failed execute into the zero default
single_value_query_swallow(q, params, canOpen, rows) ==
    IF ~canOpen THEN Outcome("returned", ZeroDefault, 0, 0)
    ELSE LET r == execute(q, params, rows)
         IN  IF r.err # "none" THEN Outcome("returned", ZeroDefault, 1, 1)
             ELSE IF r.rows = <<>> THEN Outcome("returned", ZeroDefault, 1, 1)
             ELSE IF r.rows[1][1] = NULL THEN Outcome("returned", ZeroDefault, 1, 1)
             ELSE Outcome("returned", r.rows[1][1], 1, 1)

\* single_value_query without the test of the first column for None
single_value_query_nonull(q, params, canOpen, rows) ==
    IF ~canOpen THEN Outcome("raised", "OperationalError", 0, 0)
    ELSE LET r == execute(q, params, rows)
         IN  IF r.err # "none" THEN Outcome("raised", r.err, 1, 0)
             ELSE IF r.rows = <<>> THEN Outcome("returned", ZeroDefault, 1, 1)
             ELSE Outcome("returned", r.rows[1][1], 1, 1)

\* Helpers.single_value_query
single_value_query(q, params, canOpen, rows) ==
    IF ~canOpen THEN Outcome("raised", "OperationalError", 0, 0)
    ELSE LET r == execute(q, params, rows)
         IN  IF r.err # "none" THEN Outcome("raised", r.err, 1, 0)
             ELSE \* val = fetchone(); conn.close()
                  IF r.rows = <<>> THEN Outcome("returned", ZeroDefault, 1, 1)
             ELSE IF r.rows[1][1] = NULL THEN Outcome("returned", ZeroDefault, 1, 1)
             ELSE Outcome("returned", r.rows[1][1], 1, 1)

\* fetchall_query that returns the rows but the last
fetchall_query_droplast(q, params, canOpen, rows) ==
    IF ~canOpen THEN Outcome("raised", "OperationalError", 0, 0)
    ELSE LET r == execute(q, params, rows)
         IN  IF r.err # "none" THEN Outcome("raised", r.err, 1, 0)
             ELSE IF r.rows = <<>> THEN Outcome("returned", <<>>, 1, 1)
             ELSE Outcome("returned", SubSeq(r.rows, 1, Len(r.rows) - 1), 1, 1)

\* Helpers.fetchall_query
fetchall_query(q, params, canOpen, rows) ==
    IF ~canOpen THEN Outcome("raised", "OperationalError", 0, 0)
    ELSE LET r == execute(q, params, rows)
         IN  IF r.err # "none" THEN Outcome("raised", r.err, 1, 0)
             ELSE Outcome("returned", r.rows, 1, 1)

\* Helpers.dataframe_query: pandas.read_sql raises DatabaseError for what
\* execute raises, and otherwise builds the frame of the rows
dataframe_query(q, params, canOpen, rows) ==
    IF ~canOpen THEN Outcome("raised", "OperationalError", 0, 0)
    ELSE LET r == execute(q, params, rows)
         IN  IF r.err # "none" THEN Outcome("raised", "DatabaseError", 1, 0)
             ELSE Outcome("returned", r.rows, 1, 1)

\* the summary types create_plot_df is called with; "median" stands for
\* any text that is none of the five it knows
SummaryTypes == {"count", "sum", "avg", "pmpm", "percent", "median"}

\* additional_filter: no filter, a filter keeping member 1, a malformed one
Filters == {"none", "member", "bad"}

\* the rows the query of create_plot_df selects (the interpolated table,
\* date column and filter), or the error pandas.read_sql raises
plot_query(table_ok, filter, rows) ==
    IF ~table_ok \/ filter = "bad" THEN [err |-> "DatabaseError", rows |-> <<>>]
    ELSE IF filter = "member"
         THEN LET keep(r) == r[1] = "1"
              IN  [err |-> "none", rows |-> SelectSeq(rows, keep)]
    ELSE [err |-> "none", rows |-> rows]

\* df.groupby("month"): the months present, in order, each with the
\* member ids of its rows
RECURSIVE group_by_month(_, _)
group_by_month(df, i) ==
    IF i > Len(MonthOrder) THEN <<>>
    ELSE LET in_month(r) == r[2] = MonthOrder[i]
             g == SelectSeq(df, in_month)
             rest == group_by_month(df, i + 1)
         IN  IF g = <<>> THEN rest
             ELSE <<[Month |-> MonthOrder[i],
                     ids |-> [k \in 1..Len(g) |-> g[k][1]]]>> \o rest

not_null(v) == v # NULL

\* the Value column: count() counts the ids that are not null; sum(),
\* mean() and the per-census ratio are kept as the aggregate's name over
\* the ids it is taken of
summarise(summary_type, groups) ==
    [k \in 1..Len(groups) |->
        [Month |-> groups[k].Month,
         Value |-> IF summary_type \in {"count", "pmpm"}
                   THEN <<summary_type, Len(SelectSeq(groups[k].ids, not_null))>>
                   ELSE <<summary_type, groups[k].ids>>]]

\* the body of create_plot_df for a summary type other than "percent"
create_plot_df_plain(table_ok, summary_type, filter, canOpen, rows) ==
    IF ~canOpen THEN Outcome("raised", "OperationalError", 0, 0)
    ELSE LET r == plot_query(table_ok, filter, rows)
         IN  IF r.err # "none" THEN Outcome("raised", r.err, 1, 0)
             ELSE IF summary_type \notin {"pmpm", "sum", "avg", "count"}
                  \* plot_df is never bound
                  THEN Outcome("raised", "UnboundLocalError", 1, 0)
             ELSE Outcome("returned",
                          summarise(summary_type, group_by_month(r.rows, 1)), 1, 1)

\* plot_df["Value"] / total_df["Value"] * 100, row by row of plot_df
percent_of(plot_df, total_df) ==
    [k \in 1..Len(plot_df) |->
        [Month |-> plot_df[k].Month,
         Value |-> IF k <= Len(total_df)
                   THEN <<"percent", plot_df[k].Value[2], total_df[k].Value[2]>>
                   ELSE <<"percent", plot_df[k].Value[2], NULL>>]]

\* Helpers.create_plot_df: with "percent" it calls itself twice with
\* "count" and returns from inside the branch, past its own conn.close()
create_plot_df(table_ok, summary_type, filter, canOpen, rows) ==
    IF summary_type # "percent"
    THEN create_plot_df_plain(table_ok, summary_type, filter, canOpen, rows)
    ELSE IF ~canOpen THEN Outcome("raised", "OperationalError", 0, 0)
    ELSE LET p == create_plot_df_plain(table_ok, "count", filter, canOpen, rows)
             t == create_plot_df_plain(table_ok, "count", "none", canOpen, rows)
         IN  IF p.status = "raised"
             THEN Outcome("raised", p.val, 1 + p.opened, p.closed)
             ELSE IF t.status = "raised"
             THEN Outcome("raised", t.val, 1 + p.opened + t.opened,
                          p.closed + t.closed)
             ELSE Outcome("returned", percent_of(p.val, t.val),
                          1 + p.opened + t.opened, p.closed + t.closed)

---------------------------------------------------------------------------
(* Specification SpecExec: calls of the executor, one after the other,
   against a store that other processes write between the calls *)

\* the outcome of a call of the executor becomes the last result, and the
\* connections it did not close stay open
Called(op, arg, o) ==
    [op |-> op, at |-> now, arg |-> arg, status |-> o.status, val |-> o.val,
     opened |-> o.opened, closed |-> o.closed]

StoreInsert ==
    \E r \in Rows :
        /\ ret = Idle
        /\ Len(store) < MaxRows
        /\ store' = Append(store, r)
        /\ UNCHANGED <<now, ret, openConns, db_filepath, init_arg, threads>>

StoreDelete ==
    /\ ret = Idle
    /\ store # <<>>
    /\ store' = Tail(store)
    /\ UNCHANGED <<now, ret, openConns, db_filepath, init_arg, threads>>

\* a Connection object that was dropped without close() is closed by its
\* finalizer, at a moment the code does not control
Finalize ==
    /\ openConns > 0
    /\ openConns' = openConns - 1
    /\ UNCHANGED <<now, ret, store, db_filepath, init_arg, threads>>

SingleValueQuery ==
    \E q \in Queries, params \in ParamLists, canOpen \in BOOLEAN :
        LET o == single_value_query(q, params, canOpen, store)
        IN  /\ ret = Idle
            /\ openConns + o.opened - o.closed <= MaxOpen
            /\ openConns' = openConns + o.opened - o.closed
            /\ ret' = Called("single_value_query",
                             [q |-> q, params |-> params, canOpen |-> canOpen,
                              rows |-> store], o)
            /\ UNCHANGED <<now, store, db_filepath, init_arg, threads>>

FetchallQuery ==
    \E q \in Queries, params \in ParamLists, canOpen \in BOOLEAN :
        LET o == fetchall_query(q, params, canOpen, store)
        IN  /\ ret = Idle
            /\ openConns + o.opened - o.closed <= MaxOpen
            /\ openConns' = openConns + o.opened - o.closed
            /\ ret' = Called("fetchall_query",
                             [q |-> q, params |-> params, canOpen |-> canOpen,
                              rows |-> store], o)
            /\ UNCHANGED <<now, store, db_filepath, init_arg, threads>>

DataframeQuery ==
    \E q \in Queries, params \in ParamLists, canOpen \in BOOLEAN :
        LET o == dataframe_query(q, params, canOpen, store)
        IN  /\ ret = Idle
            /\ openConns + o.opened - o.closed <= MaxOpen
            /\ openConns' = openConns + o.opened - o.closed
            /\ ret' = Called("dataframe_query",
                             [q |-> q, params |-> params, canOpen |-> canOpen,
                              rows |-> store], o)
            /\ UNCHANGED <<now, store, db_filepath, init_arg, threads>>

CreatePlotDf ==
    \E table_ok \in BOOLEAN, summary_type \in SummaryTypes, filter \in Filters,
       canOpen \in BOOLEAN :
        LET o == create_plot_df(table_ok, summary_type, filter, canOpen, store)
        IN  /\ ret = Idle
            /\ openConns + o.opened - o.closed <= MaxOpen
            /\ openConns' = openConns + o.opened - o.closed
            /\ ret' = Called("create_plot_df",
                             [table_ok |-> table_ok, summary_type |-> summary_type,
                              filter |-> filter, canOpen |-> canOpen,
                              rows |-> store], o)
            /\ UNCHANGED <<now, store, db_filepath, init_arg, threads>>

NextExec ==
    \/ StoreInsert
    \/ StoreDelete
    \/ Finalize
    \/ SingleValueQuery
    \/ FetchallQuery
    \/ DataframeQuery
    \/ CreatePlotDf
    \/ Discard

SpecExec == InitCommon /\ [][NextExec]_vars

---------------------------------------------------------------------------
(* The time-series looper: pandas offsets and date_range, the indicator
   function it is given, and Helpers.loop_plot_df *)

\* the first day of the month k months from dt's month (k may be negative)
month_start_plus(dt, k) ==
    LET t == 12 * dt.y + (dt.m - 1) + k
    IN  Date(t \div 12, (t % 12) + 1, 1)

\* the last day of the month k months from dt's month
month_end_plus(dt, k) ==
    LET f == month_start_plus(dt, k)
    IN  Date(f.y, f.m, monthrange(f.y, f.m))

\* ts - pd.offsets.MonthBegin(n): a day that is not a first of month first
\* rolls back to the first of its own month, which counts as one step
minus_MonthBegin(dt, n) ==
    IF dt.d > 1 THEN month_start_plus(dt, 1 - n) ELSE month_start_plus(dt, 0 - n)

\* ts - pd.offsets.MonthEnd(n): the last day of the n-th month before
minus_MonthEnd(dt, n) == month_end_plus(dt, 0 - n)

\* ts + MonthEnd(n) without the roll to the end of the day's own month
plus_MonthEnd_noroll(dt, n) == month_end_plus(dt, n)

\* ts + pd.offsets.MonthEnd(n): a day that is not a last of month first
\* rolls on to the last of its own month, which counts as one step
plus_MonthEnd(dt, n) ==
    IF dt.d < monthrange(dt.y, dt.m) THEN month_end_plus(dt, n - 1)
    ELSE month_end_plus(dt, n)

\* ts - pd.DateOffset(years=1)
minus_one_year(dt) == minus_relativedelta(dt, 12)

\* a <= b on timestamps
date_le(a, b) ==
    \/ a.y < b.y
    \/ (a.y = b.y /\ a.m < b.m)
    \/ (a.y = b.y /\ a.m = b.m /\ a.d <= b.d)

\* a timestamp lies on the offset of freq: "MS" the first of a month, "QS"
\* the first of January, April, July or October
on_offset(dt, freq) ==
    /\ dt.d = 1
    /\ (freq = "QS" => dt.m \in {1, 4, 7, 10})

RECURSIVE roll_forward(_, _)
roll_forward(dt, freq) ==
    IF on_offset(dt, freq) THEN dt ELSE roll_forward(month_start_plus(dt, 1), freq)

\* a range that leaves out a timestamp equal to end
RECURSIVE range_from_open(_, _, _)
range_from_open(d, end, step) ==
    IF ~date_le(d, end) \/ d = end THEN <<>>
    ELSE <<d>> \o range_from_open(month_start_plus(d, step), end, step)

RECURSIVE range_from(_, _, _)
range_from(d, end, step) ==
    IF ~date_le(d, end) THEN <<>>
    ELSE <<d>> \o range_from(month_start_plus(d, step), end, step)

\* pd.date_range(start, end, freq=freq): the timestamps on the offset from
\* start to end, both included
date_range(start, end, freq) ==
    range_from(roll_forward(start, freq), end, IF freq = "QS" THEN 3 ELSE 1)

\* not all(params): a bound that is None (or empty)
not_all(params) == params[1] = <<>> \/ params[2] = <<>>

\* the window the loopers take when a bound of params is missing, from the
\* two readings of pd.to_datetime("today")
default_window(read1, read2) ==
    LET start_date == minus_one_year(minus_MonthBegin(read1, 2))
        end_date   == minus_MonthEnd(read2, 1)
    IN  <<start_date, end_date>>

\* what an indicator function does when called: it returns a number, it
\* returns None, or it raises
IndValue(v) == [kind |-> "value", v |-> v]

IndNone == [kind |-> "none", v |-> 0]

IndRaise == [kind |-> "raise", v |-> 0]

\* the constant a constant indicator returns
ConstantValue == 7

\* the indicator functions of the model: one returns a constant, one the
\* number of the month its period starts in, one the number of arguments
\* it was called with, one always None; one returns None and one raises
\* for the periods that start in a month whose number leaves m when
\* divided by 3 (and the month number for the others)
Indicators ==
    {[kind |-> "const", m |-> 0], [kind |-> "month", m |-> 0],
     [kind |-> "nargs", m |-> 0], [kind |-> "none", m |-> 0]}
    \cup {[kind |-> k, m |-> m] : k \in {"none_in", "raise_in"}, m \in 0..2}

\* indicator_func(params, *additional_func_args), args being all of the
\* arguments in order
indicator_func(ind, args) ==
    LET month == strptime(args[1][1]).m
    IN  CASE ind.kind = "const" -> IndValue(ConstantValue)
          [] ind.kind = "month" -> IndValue(month)
          [] ind.kind = "nargs" -> IndValue(Len(args))
          [] ind.kind = "none" -> IndNone
          [] ind.kind = "none_in" ->
                IF month % 3 = ind.m THEN IndNone ELSE IndValue(month)
          [] ind.kind = "raise_in" ->
                IF month % 3 = ind.m THEN IndRaise ELSE IndValue(month)

\* additional_func_args: None, or a tuple of further arguments
ExtraArgs ==
    {[given |-> FALSE, args |-> <<>>], [given |-> TRUE, args |-> <<"table", "col">>]}

\* the loop calling indicator_func(params) whatever additional_func_args is
RECURSIVE loop_from_noextra(_, _, _, _, _, _, _)
loop_from_noextra(starts, i, month_move, ind, extra, count_dict, calls) ==
    IF i > Len(starts)
    THEN [status |-> "returned", count_dict |-> count_dict, calls |-> calls]
    ELSE LET month_start == starts[i]
             month_end   == plus_MonthEnd(month_start, month_move)
             params      == <<strftime(month_start), strftime(month_end)>>
             r           == indicator_func(ind, <<params>>)
         IN  IF r.kind = "raise"
             THEN [status |-> "raised", count_dict |-> <<>>,
                   calls |-> Append(calls, <<params>>)]
             ELSE loop_from_noextra(starts, i + 1, month_move, ind, extra,
                                    Append(count_dict, <<strftime(month_start), r>>),
                                    Append(calls, <<params>>))

\* the loop going on to the next month_start when the indicator raises
RECURSIVE loop_from_swallow(_, _, _, _, _, _, _)
loop_from_swallow(starts, i, month_move, ind, extra, count_dict, calls) ==
    IF i > Len(starts)
    THEN [status |-> "returned", count_dict |-> count_dict, calls |-> calls]
    ELSE LET month_start == starts[i]
             month_end   == plus_MonthEnd(month_start, month_move)
             params      == <<strftime(month_start), strftime(month_end)>>
             args        == IF extra.given THEN <<params>> \o extra.args
                            ELSE <<params>>
             r           == indicator_func(ind, args)
         IN  loop_from_swallow(starts, i + 1, month_move, ind, extra,
                 IF r.kind = "raise" THEN count_dict
                 ELSE Append(count_dict, <<strftime(month_start), r>>),
                 Append(calls, args))

\* the for loop of loop_plot_df from its i-th month_start on: count_dict
\* and the calls made so far are carried along; an indicator that raises
\* ends the loop and the call
RECURSIVE loop_from(_, _, _, _, _, _, _)
loop_from(starts, i, month_move, ind, extra, count_dict, calls) ==
    IF i > Len(starts)
    THEN [status |-> "returned", count_dict |-> count_dict, calls |-> calls]
    ELSE LET month_start == starts[i]
             month_end   == plus_MonthEnd(month_start, month_move)
             params      == <<strftime(month_start), strftime(month_end)>>
             args        == IF extra.given THEN <<params>> \o extra.args
                            ELSE <<params>>
             r           == indicator_func(ind, args)
         IN  IF r.kind = "raise"
             THEN [status |-> "raised", count_dict |-> <<>>,
                   calls |-> Append(calls, args)]
             ELSE loop_from(starts, i + 1, month_move, ind, extra,
                            Append(count_dict, <<strftime(month_start), r>>),
                            Append(calls, args))

\* the frame without fillna(0)
plot_frame_nofill(count_dict) ==
    [k \in 1..Len(count_dict) |->
        [Month |-> count_dict[k][1], Value |-> count_dict[k][2]]]

\* pd.DataFrame.from_dict(count_dict, orient="index").reset_index(), the
\* renaming of the columns and fillna(0)
plot_frame(count_dict) ==
    [k \in 1..Len(count_dict) |->
        [Month |-> count_dict[k][1],
         Value |-> IF count_dict[k][2].kind = "none" THEN IndValue(0)
                   ELSE count_dict[k][2]]]

\* the start and end of the walk: the default window, or params as given
loop_window(params, read1, read2) ==
    IF not_all(params) THEN default_window(read1, read2)
    ELSE <<strptime(params[1]), strptime(params[2])>>

\* Helpers.loop_plot_df
loop_plot_df(ind, params, freq, extra, read1, read2) ==
    LET w          == loop_window(params, read1, read2)
        month_move == IF freq = "QS" THEN 3 ELSE 1
        run        == loop_from(date_range(w[1], w[2], freq), 1, month_move,
                                ind, extra, <<>>, <<>>)
    IN  IF run.status = "raised"
        THEN [status |-> "raised", val |-> "IndicatorError", calls |-> run.calls]
        ELSE [status |-> "returned", val |-> plot_frame(run.count_dict),
              calls |-> run.calls]

---------------------------------------------------------------------------
(* Team.loop_plot_team_df (team.py) *)

\* the team labels of the model
TeamNames == {"East", "West", "North"}

\* the order in which an indicator's query returns its rows
TeamOrder == <<"North", "West", "East">>

\* the position of a team label in TeamOrder
TeamNumber(t) == CHOOSE k \in 1..Len(TeamOrder) : TeamOrder[k] = t

\* str(col).lower()
lower(col) ==
    CASE col = "East" -> "east"
      [] col = "West" -> "west"
      [] col = "North" -> "north"
      [] OTHER -> col

\* what ppts_on_team gives for the whole range: the frame of the teams
\* with a participant, or the failure of its query
StaticTeams ==
    {[ok |-> TRUE, teams |-> <<>>],
     [ok |-> TRUE, teams |-> <<"East", "West">>],
     [ok |-> FALSE, teams |-> <<>>]}

\* the team indicators of the model: one returns a row for each of its
\* teams with a number, one a row for each of its teams with a null
\* value; one raises for the periods that start in a month whose number
\* leaves m when divided by 3
TeamIndicators ==
    {[kind |-> "rows", teams |-> t, m |-> 0] :
         t \in {{"East", "West"}, {"East"}, {"West", "North"}}}
    \cup {[kind |-> "nulls", teams |-> {"East", "West"}, m |-> 0]}
    \cup {[kind |-> "raise_in", teams |-> {"East", "West"}, m |-> m] : m \in 0..2}

\* the rows (team, value) of the frame a team indicator returns
team_rows(ind, month) ==
    LET present == SelectSeq(TeamOrder, LAMBDA t : t \in ind.teams)
    IN  [k \in 1..Len(present) |->
            [team  |-> present[k],
             value |-> IF ind.kind = "nulls" THEN IndNone
                       ELSE IndValue(20 * TeamNumber(present[k]) + month)]]

\* indicator_func(params, *additional_func_args) of a team indicator
team_indicator_func(ind, args) ==
    LET month == strptime(args[1][1]).m
    IN  IF ind.kind = "raise_in" /\ month % 3 = ind.m
        THEN [kind |-> "raise", rows |-> <<>>]
        ELSE [kind |-> "frame", rows |-> team_rows(ind, month)]

\* a merge that keeps the teams of both frames that match only
merge_inner(teams, rows) ==
    LET kept == SelectSeq(teams, LAMBDA t : \E k \in 1..Len(rows) : rows[k].team = t)
    IN  [j \in 1..Len(kept) |->
            [team  |-> kept[j],
             value |-> rows[CHOOSE k \in 1..Len(rows) : rows[k].team = kept[j]].value]]

\* df.merge(frame, on="team", how="left"): one row for each team of df in
\* its order, with the value of the frame's row for that team, or NaN
merge_left(teams, rows) ==
    [j \in 1..Len(teams) |->
        [team  |-> teams[j],
         value |-> IF \E k \in 1..Len(rows) : rows[k].team = teams[j]
                   THEN rows[CHOOSE k \in 1..Len(rows) : rows[k].team = teams[j]].value
                   ELSE IndNone]]

\* the transposed frame of one month_start: the columns are named by the
\* team row, and the column month is added
month_row(merged, label) ==
    [month |-> label,
     cells |-> [j \in 1..Len(merged) |->
                   [col |-> merged[j].team, value |-> merged[j].value]]]

\* the for loop of loop_plot_team_df from its i-th month_start on
RECURSIVE team_loop_from(_, _, _, _, _, _, _, _)
team_loop_from(starts, i, month_move, ind, extra, teams, master_plot_df, calls) ==
    IF i > Len(starts)
    THEN [status |-> "returned", master_plot_df |-> master_plot_df, calls |-> calls]
    ELSE LET month_start == starts[i]
             month_end   == plus_MonthEnd(month_start, month_move)
             params      == <<strftime(month_start), strftime(month_end)>>
             args        == IF extra.given THEN <<params>> \o extra.args
                            ELSE <<params>>
             r           == team_indicator_func(ind, args)
         IN  IF r.kind = "raise"
             THEN [status |-> "raised", master_plot_df |-> <<>>,
                   calls |-> Append(calls, args)]
             ELSE team_loop_from(starts, i + 1, month_move, ind, extra, teams,
                      Append(master_plot_df,
                             month_row(merge_left(teams, r.rows),
                                       strftime(month_start))),
                      Append(calls, args))

\* the renaming of the columns, fillna(0) and reset_index
team_frame(master_plot_df, col_suffix) ==
    [k \in 1..Len(master_plot_df) |->
        [month |-> master_plot_df[k].month,
         cells |-> [j \in 1..Len(master_plot_df[k].cells) |->
                       [col   |-> lower(master_plot_df[k].cells[j].col) \o col_suffix,
                        value |-> IF master_plot_df[k].cells[j].value.kind = "none"
                                  THEN IndValue(0)
                                  ELSE master_plot_df[k].cells[j].value]]]]

\* the start and end of the walk of loop_plot_team_df, as texts
team_loop_window(params, read1, read2) ==
    IF not_all(params)
    THEN <<strftime(default_window(read1, read2)[1]),
           strftime(default_window(read1, read2)[2])>>
    ELSE <<strftime(strptime(params[1])), strftime(strptime(params[2]))>>

\* Team.loop_plot_team_df; static is what ppts_on_team gives
loop_plot_team_df(ind, params, freq, extra, col_suffix, static, read1, read2) ==
    LET w          == team_loop_window(params, read1, read2)
        month_move == IF freq = "QS" THEN 3 ELSE 1
        starts     == IF extra.given
                      THEN date_range(strptime(w[1]), strptime(w[2]), "MS")
                      ELSE date_range(strptime(w[1]), strptime(w[2]), freq)
        run        == team_loop_from(starts, 1, month_move, ind, extra,
                                     static.teams, <<>>, <<>>)
    IN  IF ~static.ok
        THEN [status |-> "raised", val |-> "DatabaseError", calls |-> <<>>]
        ELSE IF run.status = "raised"
        THEN [status |-> "raised", val |-> "IndicatorError", calls |-> run.calls]
        ELSE [status |-> "returned", val |-> team_frame(run.master_plot_df, col_suffix),
              calls |-> run.calls]

---------------------------------------------------------------------------
(* Specification SpecLoop: calls of the loopers *)

\* the periods given to the loopers: from the 1st or the 15th of a month
\* to the first or the last day of a month up to MaxLoopMonths later
LoopEnds(first) ==
    UNION {{month_start_plus(first, k), month_end_plus(first, k)} :
               k \in 0..MaxLoopMonths}

LoopPeriods ==
    UNION {{<<strftime(Date(f.y, f.m, d)), strftime(e)>> :
                d \in {1, 15}, e \in LoopEnds(f)} :
           f \in {Date(y, m, 1) : y \in Years, m \in 1..12}}

\* params with both bounds missing, or the second only
MissingBounds == {<<<<>>, <<>>>>, <<strftime(Date(FirstYear, 1, 1)), <<>>>>}

LoopPlotDf ==
    /\ ret = Idle
    /\ \E ind \in Indicators, params \in LoopPeriods \cup MissingBounds,
          freq \in {"MS", "QS"}, extra \in ExtraArgs,
          read2 \in {now, next_day(now)} :
           LET o == loop_plot_df(ind, params, freq, extra, now, read2)
           IN  /\ not_all(params) \/ read2 = now
               /\ ret' = [op |-> "loop_plot_df", at |-> now,
                          arg |-> [ind |-> ind, params |-> params, freq |-> freq,
                                   extra |-> extra, read2 |-> read2],
                          status |-> o.status, val |-> o.val,
                          opened |-> 0, closed |-> 0, calls |-> o.calls]
    /\ UNCHANGED <<now, store, openConns, db_filepath, init_arg, threads>>

\* the periods given to the team looper: those that start in the second
\* half of FirstYear (the walks of its last months cross the new year)
TeamLoopPeriods ==
    {p \in LoopPeriods : strptime(p[1]).y = FirstYear /\ strptime(p[1]).m > 6}

LoopPlotTeamDf ==
    /\ ret = Idle
    /\ \E ind \in TeamIndicators, params \in TeamLoopPeriods \cup MissingBounds,
          freq \in {"MS", "QS"}, extra \in ExtraArgs, col_suffix \in {"", "_n"},
          static \in StaticTeams, read2 \in {now, next_day(now)} :
           LET o == loop_plot_team_df(ind, params, freq, extra, col_suffix,
                                      static, now, read2)
           IN  /\ not_all(params) \/ read2 = now
               /\ ret' = [op |-> "loop_plot_team_df", at |-> now,
                          arg |-> [ind |-> ind, params |-> params, freq |-> freq,
                                   extra |-> extra, read2 |-> read2,
                                   col_suffix |-> col_suffix, static |-> static],
                          status |-> o.status, val |-> o.val,
                          opened |-> 0, closed |-> 0, calls |-> o.calls]
    /\ UNCHANGED <<now, store, openConns, db_filepath, init_arg, threads>>

NextLoop ==
    \/ LoopPlotDf
    \/ LoopPlotTeamDf
    \/ Discard

SpecLoop == InitCommon /\ [][NextLoop]_vars

---------------------------------------------------------------------------
(* The params object of the caller.

   Python passes the caller's tuple or list by reference.  The heap is a
   sequence of objects [kind, items]; a reference is a position in it, and
   the caller's params object is at position 1.  A method works on the
   heap and on the reference its local name params is bound to. *)

\* params[:] = [...]: the object the name is bound to is given the items
rebind_in_place(h, ref, items) ==
    [heap |-> [h EXCEPT ![ref] = [kind |-> h[ref].kind, items |-> items]],
     ref  |-> ref]

\* params = [...] or params = list(params) + [...]: the right-hand side is
\* a new list object, and the local name is bound to it
rebind(h, ref, items) ==
    [heap |-> Append(h, [kind |-> "list", items |-> items]), ref |-> Len(h) + 1]

\* another name is bound to a new list or tuple
bind_new(h, kind, items) ==
    [heap |-> Append(h, [kind |-> kind, items |-> items]), ref |-> Len(h) + 1]

\* the for loops of the loopers: params is bound to a new list for each
\* month_start
RECURSIVE loop_rebinds(_, _, _, _, _)
loop_rebinds(h, ref, starts, i, month_move) ==
    IF i > Len(starts) THEN h
    ELSE LET month_end == plus_MonthEnd(starts[i], month_move)
             b == rebind(h, ref, <<strftime(starts[i]), strftime(month_end)>>)
         IN  loop_rebinds(b.heap, b.ref, starts, i + 1, month_move)

\* the heap after loop_plot_df(indicator_func, params, freq): start_date,
\* end_date = params reads the object, the loop rebinds the name
loop_plot_df_heap(h, ref, freq) ==
    LET start_date == h[ref].items[1]
        end_date   == h[ref].items[2]
        starts     == date_range(strptime(start_date), strptime(end_date), freq)
        after_loop == loop_rebinds(h, ref, starts, 1, IF freq = "QS" THEN 3 ELSE 1)
    IN  bind_new(after_loop, "frame", <<>>).heap

\* the heap after ppts_on_team(params): params = list(params) + list(params)
ppts_on_team_heap(h, ref) ==
    rebind(h, ref, h[ref].items \o h[ref].items).heap

\* the heap after loop_plot_team_df: params[0] and params[1] are read,
\* ppts_on_team is given a new tuple, the loop rebinds the name
loop_plot_team_df_heap(h, ref, freq) ==
    LET start_date == strftime(strptime(h[ref].items[1]))
        end_date   == strftime(strptime(h[ref].items[2]))
        whole      == bind_new(h, "tuple", <<start_date, end_date>>)
        after_ppts == ppts_on_team_heap(whole.heap, whole.ref)
        starts     == date_range(strptime(start_date), strptime(end_date), freq)
        after_loop == loop_rebinds(after_ppts, ref, starts, 1,
                                   IF freq = "QS" THEN 3 ELSE 1)
    IN  bind_new(after_loop, "frame", <<>>).heap

\* the heap after prev_month_dates(params): the bounds are read and a new
\* tuple is returned
prev_month_dates_heap(h, ref) ==
    bind_new(h, "tuple",
             prev_month_dates(<<h[ref].items[1], h[ref].items[2]>>)).heap

\* the heap after prev_quarter_dates(params): the bounds are read and a new
\* tuple is returned
prev_quarter_dates_heap(h, ref) ==
    bind_new(h, "tuple",
             prev_quarter_dates(<<h[ref].items[1], h[ref].items[2]>>)).heap

\* the heap after Team.days_by_team(params, utilization_table): two new
\* parameter lists are built from params
days_by_team_heap(h, ref) ==
    LET params == h[ref].items
        admit_in_time_params ==
            bind_new(h, "list", <<params[2]>> \o params \o params)
        admit_before_time_params ==
            bind_new(admit_in_time_params.heap, "list",
                     <<params[2], params[1], params[1], params[1]>> \o params)
    IN  admit_before_time_params.heap

\* the heap after Utilization.utilization_days(params, utilization_table):
\* start_date, end_date = params, then new lists
utilization_days_heap(h, ref) ==
    LET start_date == h[ref].items[1]
        end_date   == h[ref].items[2]
        query1 == bind_new(h, "list", <<start_date, end_date, start_date, end_date>>)
        query2 == bind_new(query1.heap, "list",
                           <<start_date, start_date, start_date, end_date>>)
        query3 == bind_new(query2.heap, "list",
                           <<end_date, start_date, end_date, end_date>>)
        query4 == bind_new(query3.heap, "list",
                           <<end_date, start_date, start_date, end_date>>)
        all_params == bind_new(query4.heap, "list",
                               query1.heap[query1.ref].items
                                   \o query2.heap[query2.ref].items
                                   \o query3.heap[query3.ref].items
                                   \o query4.heap[query4.ref].items)
    IN  all_params.heap

---------------------------------------------------------------------------
(* Specification SpecArgs: methods called with a params object of the
   caller's, a tuple or a list *)

\* the caller's objects
CallerObjects ==
    {[kind |-> k, items |-> p] : k \in {"tuple", "list"}, p \in TeamLoopPeriods}

\* the methods of SpecArgs that take a period
ArgMethods ==
    {"loop_plot_df", "loop_plot_team_df", "prev_month_dates", "prev_quarter_dates",
     "ppts_on_team", "days_by_team", "utilization_days"}

\* the heap after a method was called with the object at position 1
heap_after(method, h, freq) ==
    CASE method = "loop_plot_df" -> loop_plot_df_heap(h, 1, freq)
      [] method = "loop_plot_team_df" -> loop_plot_team_df_heap(h, 1, freq)
      [] method = "prev_month_dates" -> prev_month_dates_heap(h, 1)
      [] method = "prev_quarter_dates" -> prev_quarter_dates_heap(h, 1)
      [] method = "ppts_on_team" -> ppts_on_team_heap(h, 1)
      [] method = "days_by_team" -> days_by_team_heap(h, 1)
      [] method = "utilization_days" -> utilization_days_heap(h, 1)

\* a method is called with the caller's object and returns; the caller
\* then looks at its object
CallWithObject ==
    /\ ret = Idle
    /\ \E method \in ArgMethods, obj \in CallerObjects, freq \in {"MS", "QS"} :
           LET h == heap_after(method, <<obj>>, freq)
           IN  /\ freq = "QS" => method \in {"loop_plot_df", "loop_plot_team_df"}
               /\ ret' = [op |-> method, at |-> now,
                          arg |-> [obj |-> obj, freq |-> freq],
                          status |-> "returned", val |-> Len(h) - 1,
                          opened |-> 0, closed |-> 0, after |-> h[1]]
    /\ UNCHANGED <<now, store, openConns, db_filepath, init_arg, threads>>

NextArgs ==
    \/ CallWithObject
    \/ Discard

SpecArgs == InitCommon /\ [][NextArgs]_vars

---------------------------------------------------------------------------
(* Specification SpecThreads: calls of the executor made from several
   threads on one object.  A call is three steps: sqlite3.connect, the
   execute and fetch on that connection, and conn.close() with the
   return.  threads holds the calls (one for each thread) and the
   connections opened so far (TRUE while open); the store does not
   change while the calls run. *)

\* the number of threads
NumThreads == 2

ThreadIds == 1..NumThreads

\* the methods of the executor
ExecutorMethods == {"single_value_query", "fetchall_query", "dataframe_query"}

\* the calls a thread makes: one of the three methods, with a query that
\* selects the rows of a month or with a malformed one
ThreadCalls ==
    {[op |-> op, q |-> qp[1], params |-> qp[2]] :
        op \in ExecutorMethods,
        qp \in {<<"where", <<MonthOrder[1]>>>>, <<"bad", <<>>>>}}

\* the stores the threads read
ThreadStores ==
    {<<>>, <<<<NULL, MonthOrder[1]>>, <<"1", MonthOrder[2]>>>>,
     <<<<"1", MonthOrder[1]>>, <<"a", MonthOrder[1]>>>>}

\* a thread that has not yet started its call
NotStarted(c) ==
    [op |-> c.op, q |-> c.q, params |-> c.params, pc |-> "start", conn |-> 0,
     fetched |-> <<>>, status |-> "none", val |-> <<>>]

\* a connection kept in an attribute of the object: every thread works
\* on the connection that was opened last
conn_of_shared(t, calls, conns) == Len(conns)

\* conn: the local variable of the call of thread t
conn_of(t, calls, conns) == calls[t].conn

\* what the method makes of the rows it fetched
returned_value(op, rows) ==
    IF op = "single_value_query"
    THEN IF rows = <<>> THEN ZeroDefault
         ELSE IF rows[1][1] = NULL THEN ZeroDefault
         ELSE rows[1][1]
    ELSE rows

\* the error the method raises for an error of execute
raised_error(op, err) == IF op = "dataframe_query" THEN "DatabaseError" ELSE err

InitThreads ==
    /\ now = Date(FirstYear, 1, 1)
    /\ ret = Idle
    /\ store \in ThreadStores
    /\ openConns = 0
    /\ db_filepath = DefaultPath
    /\ init_arg = DefaultPath
    /\ \E cs \in [ThreadIds -> ThreadCalls], canOpen \in BOOLEAN :
           threads = [calls |-> [t \in ThreadIds |-> NotStarted(cs[t])],
                      conns |-> <<>>, canOpen |-> canOpen]

\* conn = sqlite3.connect(self.db_filepath)
ThreadConnect ==
    \E t \in ThreadIds :
        /\ threads.calls[t].pc = "start"
        /\ IF threads.canOpen
           THEN /\ threads' = [threads EXCEPT
                                  !.conns = Append(@, TRUE),
                                  !.calls[t].conn = Len(threads.conns) + 1,
                                  !.calls[t].pc = "connected"]
                /\ openConns' = openConns + 1
           ELSE /\ threads' = [threads EXCEPT
                                  !.calls[t].pc = "done",
                                  !.calls[t].status = "raised",
                                  !.calls[t].val = "OperationalError"]
                /\ UNCHANGED openConns
        /\ UNCHANGED <<now, ret, store, db_filepath, init_arg>>

\* c.execute(q, params).fetchone() / .fetchall() / pd.read_sql(q, conn):
\* on a closed connection sqlite3 raises ProgrammingError; an error leaves
\* the method before conn.close()
ThreadExecute ==
    \E t \in ThreadIds :
        LET conn == conn_of(t, threads.calls, threads.conns)
            c    == threads.calls[t]
            r    == execute(c.q, c.params, store)
        IN  /\ c.pc = "connected"
            /\ IF ~threads.conns[conn]
               THEN threads' = [threads EXCEPT
                                   !.calls[t].pc = "done",
                                   !.calls[t].status = "raised",
                                   !.calls[t].val = raised_error(c.op, "ProgrammingError")]
               ELSE IF r.err # "none"
               THEN threads' = [threads EXCEPT
                                   !.calls[t].pc = "done",
                                   !.calls[t].status = "raised",
                                   !.calls[t].val = raised_error(c.op, r.err)]
               ELSE threads' = [threads EXCEPT
                                   !.calls[t].pc = "fetched",
                                   !.calls[t].fetched = r.rows]
            /\ UNCHANGED <<now, ret, store, openConns, db_filepath, init_arg>>

\* conn.close() and the return of the value
ThreadCloseAndReturn ==
    \E t \in ThreadIds :
        LET conn == conn_of(t, threads.calls, threads.conns)
            c    == threads.calls[t]
        IN  /\ c.pc = "fetched"
            /\ threads' = [threads EXCEPT
                              !.conns[conn] = FALSE,
                              !.calls[t].pc = "done",
                              !.calls[t].status = "returned",
                              !.calls[t].val = returned_value(c.op, c.fetched)]
            /\ openConns' = IF threads.conns[conn] THEN openConns - 1 ELSE openConns
            /\ UNCHANGED <<now, ret, store, db_filepath, init_arg>>

NextThreads ==
    \/ ThreadConnect
    \/ ThreadExecute
    \/ ThreadCloseAndReturn

SpecThreads == InitThreads /\ [][NextThreads]_vars

---------------------------------------------------------------------------
(* Indicators that divide the value of one scalar query by the value of
   another (enrollment.py, utilization.py, incidents.py).

   In specification SpecRatio a row of the store is (tag, month): a
   disenrollment of type "Voluntary" or "Deceased" in that month, one
   participant of the census of that month ("census"), or one admission
   or one participant without incident in that month ("event").  The
   period of the call is the second month of MonthOrder, the month
   before it the first.  Numbers with two decimals are kept as integers,
   in hundredths. *)

RatioTags == {"Voluntary", "Deceased", "census", "event"}

RatioRows == RatioTags \X SecondColumn

\* SELECT COUNT(*) / SUM(total) / total through single_value_query: the
\* number of rows with one of the tags in the month, 0 when there is none
count_rows(rows, tags, month) ==
    LET counted(r) == r[1] \in tags /\ r[2] = month
    IN  Len(SelectSeq(rows, counted))

\* round(n / d * 100, 2) for d > 0, in hundredths
round_percent(n, d) ==
    IF n >= 0 THEN (2 * n * 10000 + d) \div (2 * d)
    ELSE 0 - ((2 * (0 - n) * 10000 + d) \div (2 * d))

RatioIndicators ==
    {"voluntary_disenrolled_percent", "growth_rate", "churn_rate",
     "ppts_in_utl_per_100MM", "percent_without_incident_overall"}

\* the scalar query the indicator runs first
first_query(ind, rows) ==
    CASE ind = "voluntary_disenrolled_percent" ->   \* self.disenrolled(params)
            count_rows(rows, {"Voluntary", "Deceased"}, MonthOrder[2])
      [] ind = "growth_rate" ->                     \* starting_census
            count_rows(rows, {"census"}, MonthOrder[1])
      [] ind = "churn_rate" ->                      \* enrollment.disenrolled(params)
            count_rows(rows, {"Voluntary", "Deceased"}, MonthOrder[2])
      [] ind = "ppts_in_utl_per_100MM" ->           \* self.ppts_in_utl(...)
            count_rows(rows, {"event"}, MonthOrder[2])
      [] ind = "percent_without_incident_overall" -> \* the COUNT(*) of the method
            count_rows(rows, {"event"}, MonthOrder[2])

\* the scalar query the indicator runs second
second_query(ind, rows) ==
    CASE ind = "voluntary_disenrolled_percent" ->   \* self.voluntary_disenrolled(params)
            count_rows(rows, {"Voluntary"}, MonthOrder[2])
      [] ind = "growth_rate" ->                     \* ending_census
            count_rows(rows, {"census"}, MonthOrder[2])
      [] ind = "churn_rate" ->                      \* starting_census
            count_rows(rows, {"census"}, MonthOrder[2])
      [] ind = "ppts_in_utl_per_100MM" ->           \* e.member_months(params)
            count_rows(rows, {"census"}, MonthOrder[2])
      [] ind = "percent_without_incident_overall" -> \* census_during_period(params)
            count_rows(rows, {"census"}, MonthOrder[2])

\* a division in Python: ZeroDivisionError for a zero divisor
divide_percent(n, d) ==
    IF d = 0 THEN [kind |-> "raise", v |-> 0]
    ELSE [kind |-> "value", v |-> round_percent(n, d)]

\* a voluntary_disenrolled_percent that never returns more than 100
voluntary_disenrolled_percent_capped(disenrolled, voluntary) ==
    IF disenrolled = 0 THEN [kind |-> "value", v |-> 0]
    ELSE IF voluntary > disenrolled THEN [kind |-> "value", v |-> 10000]
    ELSE divide_percent(voluntary, disenrolled)

\* Enrollment.voluntary_disenrolled_percent, from the values of its two
\* queries
voluntary_disenrolled_percent(disenrolled, voluntary) ==
    IF disenrolled = 0 THEN [kind |-> "value", v |-> 0]
    ELSE divide_percent(voluntary, disenrolled)

\* what the indicator returns from the values of its first and second
\* query, or the error it raises
ratio_result(ind, first, second) ==
    CASE ind = "voluntary_disenrolled_percent" ->
            voluntary_disenrolled_percent(first, second)
      [] ind = "growth_rate" ->
            \* round(((ending_census - starting_census) / starting_census) * 100, 2)
            divide_percent(second - first, first)
      [] ind = "churn_rate" ->
            \* round((disenrolled_over_period / starting_census) * 100, 2)
            divide_percent(first, second)
      [] ind = "ppts_in_utl_per_100MM" ->
            divide_percent(first, second)
      [] ind = "percent_without_incident_overall" ->
            divide_percent(first, second)

---------------------------------------------------------------------------
(* Specification SpecRatio: a ratio indicator runs its two queries, and
   other processes write the store at any moment, also between them.
   threads holds the call in progress: the indicator, the value of its
   first query, and whether the store was written since. *)

RatioInsert ==
    /\ ret = Idle
    /\ Len(store) < MaxRows
    /\ \E r \in RatioRows : store' = Append(store, r)
    /\ threads' = [k \in 1..Len(threads) |-> [threads[k] EXCEPT !.written = TRUE]]
    /\ UNCHANGED <<now, ret, openConns, db_filepath, init_arg>>

RatioDelete ==
    /\ ret = Idle
    /\ store # <<>>
    /\ store' = Tail(store)
    /\ threads' = [k \in 1..Len(threads) |-> [threads[k] EXCEPT !.written = TRUE]]
    /\ UNCHANGED <<now, ret, openConns, db_filepath, init_arg>>

\* the indicator is called and its first query returns
RatioFirstQuery ==
    /\ ret = Idle
    /\ threads = <<>>
    /\ \E ind \in RatioIndicators :
           threads' = <<[ind |-> ind, first |-> first_query(ind, store),
                         written |-> FALSE]>>
    /\ UNCHANGED <<now, ret, store, openConns, db_filepath, init_arg>>

\* its second query returns and the indicator returns or raises; the
\* guarded indicator returns without a second query when the first gave 0
RatioSecondQuery ==
    /\ ret = Idle
    /\ threads # <<>>
    /\ LET c      == threads[1]
           second == IF c.ind = "voluntary_disenrolled_percent" /\ c.first = 0
                     THEN 0     \* returned before the second query
                     ELSE second_query(c.ind, store)
           r      == ratio_result(c.ind, c.first, second)
       IN  ret' = [op |-> c.ind, at |-> now,
                   arg |-> [first |-> c.first, second |-> second,
                            written |-> c.written],
                   status |-> IF r.kind = "raise" THEN "raised" ELSE "returned",
                   val |-> IF r.kind = "raise" THEN "ZeroDivisionError" ELSE r.v,
                   opened |-> 0, closed |-> 0]
    /\ threads' = <<>>
    /\ UNCHANGED <<now, store, openConns, db_filepath, init_arg>>

NextRatio ==
    \/ RatioInsert
    \/ RatioDelete
    \/ RatioFirstQuery
    \/ RatioSecondQuery
    \/ Discard

SpecRatio == InitCommon /\ [][NextRatio]_vars

---------------------------------------------------------------------------
(* The text of the queries.  A query is built as a sequence of pieces of
   text: the pieces written in the source, and the values an f-string
   puts between them; bound holds the values passed as parameters. *)

\* Enrollment.disenrolled: a query with placeholders only
disenrolled_query(params) ==
    [text  |-> <<"SELECT COUNT(*) FROM enrollment WHERE disenrollment_date BETWEEN ? AND ? ">>,
     bound |-> params]

\* Utilization.top_admit_reason_by_los: top_x is written into the text
top_admit_reason_by_los_query(params, top_x) ==
    [text  |-> <<"SELECT admit_reason, los, facility, admission_date, visit_id FROM acute WHERE discharge_date BETWEEN ? AND ? AND admit_reason != 'None' ORDER BY los DESC LIMIT ",
                 top_x, ";">>,
     bound |-> params]

\* Team.readmits_by_team: days_since is bound as a parameter and also
\* written into the name of the result column
readmits_by_team_query(params, utilization_table, days_since) ==
    [text  |-> <<"SELECT team, COUNT(*) as '", utilization_table, " ", days_since,
                 " day readmits' FROM ", utilization_table,
                 " ut JOIN teams ON ut.member_id= teams.member_id WHERE admission_date BETWEEN ? AND ? AND days_since_last_admission <= ? AND (teams.end_date >= ? OR teams.end_date IS NULL) AND teams.start_date <= ? GROUP BY team;">>,
     bound |-> params \o <<days_since>> \o params]

\* Helpers.create_plot_df: additional_filter is written into the text
create_plot_df_query(table, date_col, additional_filter) ==
    [text  |-> <<"SELECT member_id, ", date_col, " from ", table, " WHERE ", date_col,
                 " BETWEEN date('now','start of month', '-1 year', '-1 month') AND date('now','start of month', '-1 day') ",
                 additional_filter, ";">>,
     bound |-> <<>>]

\* the methods whose query is built here
SqlMethods ==
    {"disenrolled", "top_admit_reason_by_los", "readmits_by_team", "create_plot_df"}

\* the identifiers a caller gives: a table and a date column
SqlTables == {"acute", "er_only"}

SqlDateColumns == {"admission_date"}

\* the values a caller gives that are no identifiers; the first of each
\* set is the default of the argument
TopX == <<"10", "5", "10 OFFSET 5">>

DaysSince == <<"30", "7">>

AdditionalFilters == <<"", "AND member_id = 1", "OR 1 = 1">>

\* the query a method builds from its arguments
build_query(method, params, table, date_col, value) ==
    CASE method = "disenrolled" -> disenrolled_query(params)
      [] method = "top_admit_reason_by_los" -> top_admit_reason_by_los_query(params, value)
      [] method = "readmits_by_team" -> readmits_by_team_query(params, table, value)
      [] method = "create_plot_df" -> create_plot_df_query(table, date_col, value)

\* the values of the argument of a method that is no identifier
SqlValues(method) ==
    CASE method = "disenrolled" -> <<"">>
      [] method = "top_admit_reason_by_los" -> TopX
      [] method = "readmits_by_team" -> DaysSince
      [] method = "create_plot_df" -> AdditionalFilters

---------------------------------------------------------------------------
(* Specification SpecSql: methods build their query from the arguments
   of the caller *)

BuildQuery ==
    /\ ret = Idle
    /\ \E method \in SqlMethods, params \in TeamLoopPeriods, table \in SqlTables,
          date_col \in SqlDateColumns :
           \E k \in 1..Len(SqlValues(method)) :
               LET value == SqlValues(method)[k]
               IN  ret' = [op |-> method, at |-> now,
                           arg |-> [params |-> params, table |-> table,
                                    date_col |-> date_col, value |-> value],
                           status |-> "returned",
                           val |-> build_query(method, params, table, date_col, value),
                           opened |-> 0, closed |-> 0]
    /\ UNCHANGED <<now, store, openConns, db_filepath, init_arg, threads>>

NextSql ==
    \/ BuildQuery
    \/ Discard

SpecSql == InitCommon /\ [][NextSql]_vars

---------------------------------------------------------------------------
(* The loopers called without a period, and specification SpecObject: an
   object of one of the classes is constructed and then used *)

\* the indicator given to a looper that is called without a period
DefaultIndicators == {[kind |-> "const", m |-> 0]}

\* loop_plot_df called with a bound of params missing
LoopPlotDfDefault ==
    /\ ret = Idle
    /\ \E ind \in DefaultIndicators, params \in MissingBounds, freq \in {"MS", "QS"},
          read2 \in {now, next_day(now)} :
           LET extra == [given |-> FALSE, args |-> <<>>]
               o     == loop_plot_df(ind, params, freq, extra, now, read2)
           IN  ret' = [op |-> "loop_plot_df", at |-> now,
                       arg |-> [ind |-> ind, params |-> params, freq |-> freq,
                                extra |-> extra, read2 |-> read2],
                       status |-> o.status, val |-> o.val,
                       opened |-> 0, closed |-> 0, calls |-> o.calls]
    /\ UNCHANGED <<now, store, openConns, db_filepath, init_arg, threads>>

\* loop_plot_team_df called with a bound of params missing
LoopPlotTeamDfDefault ==
    /\ ret = Idle
    /\ \E params \in MissingBounds, freq \in {"MS", "QS"},
          read2 \in {now, next_day(now)} :
           LET ind    == [kind |-> "rows", teams |-> {"East", "West"}, m |-> 0]
               extra  == [given |-> FALSE, args |-> <<>>]
               static == [ok |-> TRUE, teams |-> <<"East", "West">>]
               o      == loop_plot_team_df(ind, params, freq, extra, "", static,
                                           now, read2)
           IN  ret' = [op |-> "loop_plot_team_df", at |-> now,
                       arg |-> [ind |-> ind, params |-> params, freq |-> freq,
                                extra |-> extra, read2 |-> read2,
                                col_suffix |-> "", static |-> static],
                       status |-> o.status, val |-> o.val,
                       opened |-> 0, closed |-> 0, calls |-> o.calls]
    /\ UNCHANGED <<now, store, openConns, db_filepath, init_arg, threads>>

\* the constructor has run: Helpers(...) or Agg(...)
InitObject ==
    /\ now = Date(FirstYear, 1, 1)
    /\ ret = Idle
    /\ store = <<>>
    /\ openConns = 0
    /\ threads = <<>>
    /\ \E cls \in Classes, args \in ConstructorArgs :
           /\ init_arg = IF args # <<>> THEN args[1]
                         ELSE IF cls = "Agg" THEN AggDefaultPath ELSE DefaultPath
           /\ db_filepath = IF cls = "Agg" THEN Agg_init(args) ELSE Helpers_init(args)

NextObject ==
    \/ Finalize
    \/ SingleValueQuery
    \/ FetchallQuery
    \/ DataframeQuery
    \/ CreatePlotDf
    \/ LastMonth
    \/ LastThreeMonths
    \/ LastSixMonths
    \/ LastYear
    \/ LastQuarter
    \/ QuarterToDate
    \/ QuarterDatesOfYear
    \/ PrevMonthDatesOfToday
    \/ PrevQuarterDatesOfToday
    \/ LoopPlotDfDefault
    \/ LoopPlotTeamDfDefault
    \/ Discard

SpecObject == InitObject /\ [][NextObject]_vars

---------------------------------------------------------------------------
(* Specification SpecWindow: the loopers called without a period as the
   days pass *)

NextWindow ==
    \/ Tick
    \/ LoopPlotDfDefault
    \/ LoopPlotTeamDfDefault
    \/ Discard

SpecWindow == InitCommon /\ [][NextWindow]_vars

---------------------------------------------------------------------------
(* The calendar as the claims speak of it, stated apart from the code's
   own arithmetic and formatting *)

\* the quarter (1..4) a date lies in
QuarterOf(dt) == CHOOSE q \in 1..4 : dt.m \in {3 * q - 2, 3 * q - 1, 3 * q}

\* the number of days of a month of the Gregorian calendar
DaysIn(y, m) ==
    CASE m \in {1, 3, 5, 7, 8, 10, 12} -> 31
      [] m \in {4, 6, 9, 11} -> 30
      [] m = 2 /\ y % 400 = 0 -> 29
      [] m = 2 /\ y % 400 # 0 /\ y % 100 = 0 -> 28
      [] m = 2 /\ y % 100 # 0 /\ y % 4 = 0 -> 29
      [] OTHER -> 28

\* the canonical text YYYY-MM-DD of a day, digit by digit
Canonical(y, m, d) ==
    <<DigitChars[((y \div 1000) % 10) + 1], DigitChars[((y \div 100) % 10) + 1],
      DigitChars[((y \div 10) % 10) + 1], DigitChars[(y % 10) + 1], "-",
      DigitChars[(m \div 10) + 1], DigitChars[(m % 10) + 1], "-",
      DigitChars[(d \div 10) + 1], DigitChars[(d % 10) + 1]>>

\* the quarter before quarter q of year yr
PrecedingQuarter(q, yr) == IF q > 1 THEN <<q - 1, yr>> ELSE <<4, yr - 1>>

\* the month before month m of year y
PrecedingMonth(y, m) == IF m > 1 THEN <<y, m - 1>> ELSE <<y - 1, 12>>

---------------------------------------------------------------------------
(* Claims about the period utilities *)

\* C6: quarter_to_date returns the period from the first day of the
\* current quarter to today's date (not to the last day of the quarter).
C6_QuarterToDateEndsToday ==
    ret.op = "quarter_to_date" =>
        ret.val = <<Canonical(ret.at.y, 3 * QuarterOf(ret.at) - 2, 1),
                    Canonical(ret.at.y, ret.at.m, ret.at.d)>>

\* C7: prev_month_dates keeps end-of-month: an input end that is the last
\* day of its month gives the last day of the preceding month, and an
\* input start that is the first of a month gives the first of the
\* preceding month.
C7_PrevMonthKeepsEndOfMonth ==
    ret.op = "prev_month_dates" =>
        LET s  == strptime(ret.arg[1])
            e  == strptime(ret.arg[2])
            ps == PrecedingMonth(s.y, s.m)
            pe == PrecedingMonth(e.y, e.m)
        IN  /\ s.d = 1 => ret.val[1] = Canonical(ps[1], ps[2], 1)
            /\ e.d = DaysIn(e.y, e.m) =>
                   ret.val[2] = Canonical(pe[1], pe[2], DaysIn(pe[1], pe[2]))

\* C8: prev_quarter_dates applied to get_quarter_dates(q, yr) returns
\* get_quarter_dates of the preceding quarter, for every q in 1..4.
C8_PrevQuarterOfQuarter ==
    ret.op = "prev_quarter_dates" =>
        \A q \in 1..4, yr \in Years :
            ret.arg = get_quarter_dates(q, yr) =>
                LET p == PrecedingQuarter(q, yr)
                IN  ret.val = get_quarter_dates(p[1], p[2])

\* C9: get_quarter_dates(q, yr) returns the first day of month 3q-2 and
\* the last calendar day of month 3q of year yr, both as zero-padded
\* YYYY-MM-DD; (4, 2023) gives (2023-10-01, 2023-12-31) and (1, 2024)
\* gives (2024-01-01, 2024-03-31).
C9_QuarterBounds ==
    ret.op = "get_quarter_dates" =>
        LET q  == ret.arg[1]
            yr == ret.arg[2]
        IN  /\ ret.val = <<Canonical(yr, 3 * q - 2, 1),
                           Canonical(yr, 3 * q, DaysIn(yr, 3 * q))>>
            /\ (q = 4 /\ yr = 2023) =>
                   ret.val = << <<"2", "0", "2", "3", "-", "1", "0", "-", "0", "1">>,
                                <<"2", "0", "2", "3", "-", "1", "2", "-", "3", "1">> >>
            /\ (q = 1 /\ yr = 2024) =>
                   ret.val = << <<"2", "0", "2", "4", "-", "0", "1", "-", "0", "1">>,
                                <<"2", "0", "2", "4", "-", "0", "3", "-", "3", "1">> >>

\* C9 witness: a first quarter has been asked for, whose months need
\* padding, and its end is the 31st of March
C9_Witness ==
    /\ ret.op = "get_quarter_dates"
    /\ ret.arg[1] = 1
    /\ SubSeq(ret.val[2], 5, 10) = <<"-", "0", "3", "-", "3", "1">>

\* C10: last_quarter settles on the quarter before the one containing
\* today, (q-1, Y) for q > 1 and (4, Y-1) for q = 1; with return_q it
\* returns that pair, without it get_quarter_dates of that pair.
C10_LastQuarter ==
    ret.op = "last_quarter" =>
        LET p == PrecedingQuarter(QuarterOf(ret.at), ret.at.y)
        IN  IF ret.arg[1] THEN ret.val = p
            ELSE ret.val = <<Canonical(p[2], 3 * p[1] - 2, 1),
                             Canonical(p[2], 3 * p[1], DaysIn(p[2], 3 * p[1]))>>

\* C10 witness: last_quarter was called in a first quarter, not on the
\* first of a month, and returned the dates of the previous year's fourth
\* quarter
C10_Witness ==
    /\ ret.op = "last_quarter"
    /\ QuarterOf(ret.at) = 1
    /\ ret.at.d > 1
    /\ ret.arg[1] = FALSE
    /\ ret.val[2] = Canonical(ret.at.y - 1, 12, 31)

---------------------------------------------------------------------------
(* Claims about the query executor *)

ExecutorOps == {"single_value_query", "fetchall_query", "dataframe_query"}

\* the rows of a table a well-formed query matches, in the table's order
RECURSIVE RowsMatching(_, _, _)
RowsMatching(q, params, rows) ==
    IF rows = <<>> THEN <<>>
    ELSE IF q = "all" \/ Head(rows)[2] = params[1]
         THEN <<Head(rows)>> \o RowsMatching(q, params, Tail(rows))
    ELSE RowsMatching(q, params, Tail(rows))

\* the call was given a malformed query, a parameter list that does not
\* fit the placeholders, or a store that cannot be opened
FailingCall(arg) ==
    \/ ~arg.canOpen
    \/ arg.q = "bad"
    \/ (arg.q = "all" /\ arg.params # <<>>)
    \/ (arg.q = "where" /\ Len(arg.params) # 1)

\* C1: single_value_query returns 0 when the query yields no row or the
\* first column of the first row is NULL, otherwise the first column of
\* the first row unchanged; it never returns null.
C1_ScalarZeroDefault ==
    (ret.op = "single_value_query" /\ ret.status = "returned") =>
        LET rows == RowsMatching(ret.arg.q, ret.arg.params, ret.arg.rows)
        IN  /\ ret.val # NULL
            /\ (rows = <<>> \/ rows[1][1] = NULL) => ret.val = "0"
            /\ (rows # <<>> /\ rows[1][1] # NULL) => ret.val = rows[1][1]

\* C1 witness: a scalar query whose first row holds NULL in its first
\* column has returned, while a later row holds a value
C1_Witness ==
    /\ ret.op = "single_value_query"
    /\ ret.status = "returned"
    /\ ret.arg.q = "where"
    /\ Len(ret.arg.rows) = 2
    /\ ret.arg.rows[1][1] = NULL
    /\ ret.arg.rows[2][1] = "a"
    /\ ret.arg.rows[2][2] = ret.arg.params[1]
    /\ ret.arg.rows[1][2] = ret.arg.params[1]

\* C2: single_value_query, fetchall_query and dataframe_query close the
\* connection they opened on every exit path, also when the query raises.
C2_ConnectionClosedOnEveryExit ==
    ret.op \in ExecutorOps => ret.closed = ret.opened

\* C3: after an operation of Helpers has completed, no database
\* connection is open: a call that starts with none open and returns
\* leaves none open.
C3_NoConnectionHeldAcrossCalls ==
    [][(openConns = 0 /\ ret'.status = "returned") => openConns' = 0]_vars

\* C4: a malformed query, a parameter list that does not match the
\* placeholders, or a store that cannot be opened makes the three executor
\* calls raise; no such call returns a result, zero or empty or other.
C4_FailuresPropagate ==
    ret.op \in ExecutorOps =>
        /\ FailingCall(ret.arg) => ret.status = "raised"
        /\ ret.status = "returned" => ~FailingCall(ret.arg)
        /\ ret.status = "raised" => ret.val \notin {"0", NULL}

\* C4 witness: a scalar query with a placeholder was run without any
\* parameter against a store that opens, and raised
C4_Witness ==
    /\ ret.op = "single_value_query"
    /\ ret.arg.q = "where"
    /\ ret.arg.params = <<>>
    /\ ret.arg.canOpen
    /\ ret.status = "raised"

\* C5: fetchall_query returns every row of the result, in result order
\* and unmodified, and the empty list (not the scalar 0) for no rows.
C5_FetchallVerbatim ==
    (ret.op = "fetchall_query" /\ ret.status = "returned") =>
        ret.val = RowsMatching(ret.arg.q, ret.arg.params, ret.arg.rows)

\* C5 witness: fetchall_query has returned two different rows of one
\* month, in the order of the table
C5_Witness ==
    /\ ret.op = "fetchall_query"
    /\ ret.status = "returned"
    /\ ret.arg.q = "where"
    /\ Len(ret.val) = 2
    /\ ret.val[1][1] = "a"
    /\ ret.val[2][1] = NULL

\* C5, the empty case: a query that matches no row of a store that holds
\* rows has returned the empty list
C5_EmptyReached ==
    /\ ret.op = "fetchall_query"
    /\ ret.status = "returned"
    /\ ret.arg.rows # <<>>
    /\ ret.val = <<>>

---------------------------------------------------------------------------
(* Claims about the reporting windows *)

\* the month n months before month m of year y, as <<year, month>>
MonthsBefore(y, m, n) ==
    LET k == 12 * y + (m - 1) - n
    IN  <<k \div 12, (k % 12) + 1>>

\* the number of months each of the four utilities goes back
WindowMonths(op) ==
    CASE op = "last_month" -> 1
      [] op = "last_three_months" -> 3
      [] op = "last_six_months" -> 6
      [] op = "last_year" -> 12

WindowOps == {"last_month", "last_three_months", "last_six_months", "last_year"}

\* C11: last_month, last_three_months, last_six_months and last_year
\* (n = 1, 3, 6, 12) return as start the first day of the month n months
\* before the current month and as end the last day of the month before
\* the current month, for every today.
C11_LastNMonths ==
    ret.op \in WindowOps =>
        LET s == MonthsBefore(ret.at.y, ret.at.m, WindowMonths(ret.op))
            e == MonthsBefore(ret.at.y, ret.at.m, 1)
        IN  ret.val = <<Canonical(s[1], s[2], 1),
                        Canonical(e[1], e[2], DaysIn(e[1], e[2]))>>

\* C11 witness: last_three_months was called in the middle of a March of
\* a leap year: it starts in December of the year before and ends on the
\* 29th of February
C11_Witness ==
    /\ ret.op = "last_three_months"
    /\ ret.at.m = 3
    /\ ret.at.d = 15
    /\ ret.val[1] = Canonical(ret.at.y - 1, 12, 1)
    /\ ret.val[2] = Canonical(ret.at.y, 2, 29)

\* C12: month_to_date returns the first day of the current month and
\* today's date, for every today (a call made within one day; the call
\* that runs over midnight is the matter of C30).
C12_MonthToDate ==
    (ret.op = "month_to_date" /\ ret.arg[1] = ret.at) =>
        ret.val = <<Canonical(ret.at.y, ret.at.m, 1),
                    Canonical(ret.at.y, ret.at.m, ret.at.d)>>

\* C12 witness: month_to_date was called on the last day of a February
C12_Witness ==
    /\ ret.op = "month_to_date"
    /\ ret.arg[1] = ret.at
    /\ ret.at.m = 2
    /\ ret.at.d = 29
    /\ ret.val[1] # ret.val[2]

---------------------------------------------------------------------------
(* Claims about every period a utility returns *)

\* the last call returned a period (a pair of date texts)
PeriodReturned ==
    \/ ret.op \in WindowOps
    \/ ret.op \in {"month_to_date", "quarter_to_date", "get_quarter_dates",
                   "prev_month_dates", "prev_quarter_dates"}
    \/ (ret.op = "last_quarter" /\ ~ret.arg[1])

\* a day is not after another
NotAfter(a, b) ==
    \/ a.y < b.y
    \/ (a.y = b.y /\ a.m < b.m)
    \/ (a.y = b.y /\ a.m = b.m /\ a.d <= b.d)

\* C13: every period returned by a period utility has start <= end: the
\* utilities that read the clock for every today, get_quarter_dates for
\* every quarter and year, prev_month_dates and prev_quarter_dates for
\* every input period with start <= end.
C13_StartNotAfterEnd ==
    PeriodReturned =>
        /\ strptime(ret.val[1]) # ValueError
        /\ strptime(ret.val[2]) # ValueError
        /\ NotAfter(strptime(ret.val[1]), strptime(ret.val[2]))

\* C13 witness: prev_month_dates was given a period of two days, the 30th
\* and 31st of March, and returned a period of one day
C13_Witness ==
    /\ ret.op = "prev_month_dates"
    /\ strptime(ret.arg[1]).d = 30
    /\ strptime(ret.arg[2]).d = 31
    /\ strptime(ret.arg[1]).m = 3
    /\ ret.val[1] = ret.val[2]

\* C14: every bound of a returned period is a day of the calendar written
\* as zero-padded YYYY-MM-DD, and parsing it with '%Y-%m-%d' and writing
\* it again gives the same text.
C14_CanonicalRoundTrip ==
    PeriodReturned =>
        \A i \in 1..2 :
            LET d == strptime(ret.val[i])
            IN  /\ d # ValueError
                /\ d.m \in 1..12
                /\ d.d \in 1..DaysIn(d.y, d.m)
                /\ ret.val[i] = Canonical(d.y, d.m, d.d)
                /\ strftime(d) = ret.val[i]

\* C14 witness: get_quarter_dates has returned a first quarter, whose
\* months have one digit
C14_Witness ==
    /\ ret.op = "get_quarter_dates"
    /\ ret.arg[1] = 1
    /\ strptime(ret.val[2]) = Date(ret.arg[2], 3, 31)

---------------------------------------------------------------------------
(* Claims about loop_plot_df *)

\* the first days of months (monthly) or of quarters (quarterly) from a
\* start to an end, both included
FirstsIn(start, end, freq) ==
    {d \in {Date(y, m, 1) : y \in (start.y)..(end.y), m \in 1..12} :
        /\ NotAfter(start, d)
        /\ NotAfter(d, end)
        /\ (freq = "QS" => d.m \in {1, 4, 7, 10})}

\* loop_plot_df was called with both bounds of its period and returned
LoopReturned ==
    /\ ret.op = "loop_plot_df"
    /\ ret.status = "returned"
    /\ ~not_all(ret.arg.params)

\* the number of months a sub-period covers
StepMonths(freq) == IF freq = "QS" THEN 3 ELSE 1

\* C15: loop_plot_df returns exactly one entry for each first-of-month
\* (monthly) or first-of-quarter (quarterly) date d with period.start <=
\* d <= period.end and no other, labelled by d as YYYY-MM-DD, in strictly
\* increasing order, its value the indicator's result for the sub-period
\* starting at d; a constant indicator over three months gives three
\* entries equal to the constant.
C15_SeriesEntries ==
    LoopReturned =>
        LET start  == strptime(ret.arg.params[1])
            end    == strptime(ret.arg.params[2])
            firsts == FirstsIn(start, end, ret.arg.freq)
            n      == Len(ret.val)
        IN  /\ n = Cardinality(firsts)
            /\ {ret.val[k].Month : k \in 1..n}
                   = {Canonical(d.y, d.m, d.d) : d \in firsts}
            /\ \A k \in 1..(n - 1) :
                   /\ ret.val[k].Month # ret.val[k + 1].Month
                   /\ NotAfter(strptime(ret.val[k].Month),
                               strptime(ret.val[k + 1].Month))
            /\ \A k \in 1..n :
                   LET d == strptime(ret.val[k].Month)
                       e == MonthsBefore(d.y, d.m, 1 - StepMonths(ret.arg.freq))
                       sub == <<ret.val[k].Month,
                                Canonical(e[1], e[2], DaysIn(e[1], e[2]))>>
                       r == indicator_func(ret.arg.ind,
                                IF ret.arg.extra.given
                                THEN <<sub>> \o ret.arg.extra.args ELSE <<sub>>)
                   IN  r.kind = "value" => ret.val[k].Value = r
            /\ (ret.arg.ind.kind = "const" /\ ret.arg.freq = "MS" /\ start.d = 1
                    /\ end = Date(MonthsBefore(start.y, start.m, -2)[1],
                                  MonthsBefore(start.y, start.m, -2)[2],
                                  DaysIn(MonthsBefore(start.y, start.m, -2)[1],
                                         MonthsBefore(start.y, start.m, -2)[2])))
                   => /\ n = 3
                      /\ \A k \in 1..3 : ret.val[k].Value = IndValue(ConstantValue)

\* C15 witness: a constant indicator was run monthly over the three months
\* from the 1st of December to the end of February and gave three entries
C15_Witness ==
    /\ LoopReturned
    /\ ret.arg.ind.kind = "const"
    /\ ret.arg.freq = "MS"
    /\ strptime(ret.arg.params[1]).m = 12
    /\ strptime(ret.arg.params[1]).d = 1
    /\ strptime(ret.arg.params[2]).m = 2
    /\ strptime(ret.arg.params[2]).d
           = DaysIn(strptime(ret.arg.params[2]).y, 2)
    /\ Len(ret.val) = 3
    /\ ret.val[3].Value = IndValue(ConstantValue)

\* a call of one of the two loopers has ended
LooperOps == {"loop_plot_df", "loop_plot_team_df"}

\* the indicator raises when called with these arguments
Raises(op, ind, args) ==
    IF op = "loop_plot_df" THEN indicator_func(ind, args).kind = "raise"
    ELSE team_indicator_func(ind, args).kind = "raise"

\* the arguments of the call for the sub-period that starts on d
CallFor(d, freq, extra) ==
    LET e   == MonthsBefore(d.y, d.m, 1 - StepMonths(freq))
        sub == <<Canonical(d.y, d.m, d.d), Canonical(e[1], e[2], DaysIn(e[1], e[2]))>>
    IN  IF extra.given THEN <<sub>> \o extra.args ELSE <<sub>>

\* C16: when the indicator raises on a sub-period, loop_plot_df and
\* loop_plot_team_df end with that error: the raising call is the last
\* call made, no series is returned, and a series is returned only when
\* no sub-period of the period makes the indicator raise.
C16_IndicatorErrorPropagates ==
    (ret.op \in LooperOps /\ (ret.op = "loop_plot_team_df" => ret.arg.static.ok)) =>
        LET n == Len(ret.calls)
        IN  /\ \A k \in 1..n :
                   Raises(ret.op, ret.arg.ind, ret.calls[k]) =>
                       /\ k = n
                       /\ ret.status = "raised"
                       /\ ret.val = "IndicatorError"
            /\ ret.status = "raised" =>
                   /\ n > 0
                   /\ Raises(ret.op, ret.arg.ind, ret.calls[n])
            /\ ~not_all(ret.arg.params) =>
                   \A d \in FirstsIn(strptime(ret.arg.params[1]),
                                     strptime(ret.arg.params[2]), ret.arg.freq) :
                       Raises(ret.op, ret.arg.ind,
                              CallFor(d, ret.arg.freq, ret.arg.extra))
                           => ret.status = "raised"

\* C16 witness: loop_plot_df ended with the indicator's error on the
\* second of three sub-periods
C16_Witness ==
    /\ ret.op = "loop_plot_df"
    /\ ret.status = "raised"
    /\ ret.val = "IndicatorError"
    /\ ~not_all(ret.arg.params)
    /\ Cardinality(FirstsIn(strptime(ret.arg.params[1]),
                            strptime(ret.arg.params[2]), ret.arg.freq)) = 3
    /\ Len(ret.calls) = 2

\* C16 second witness: the same for loop_plot_team_df
C16_TeamWitness ==
    /\ ret.op = "loop_plot_team_df"
    /\ ret.status = "raised"
    /\ ret.val = "IndicatorError"
    /\ ~not_all(ret.arg.params)
    /\ ~ret.arg.extra.given
    /\ Cardinality(FirstsIn(strptime(ret.arg.params[1]),
                            strptime(ret.arg.params[2]), ret.arg.freq)) = 3
    /\ Len(ret.calls) = 2

\* C17: every sub-period passed to the indicator is (d, e), d a first of
\* month and e the last day of the month of d (monthly) or of the third
\* month from d (quarterly); e is not clipped to period.end.
C17_SubPeriodEnds ==
    ret.op = "loop_plot_df" =>
        \A k \in 1..Len(ret.calls) :
            LET sub == ret.calls[k][1]
                d   == strptime(sub[1])
                e   == MonthsBefore(d.y, d.m, 1 - StepMonths(ret.arg.freq))
            IN  /\ d.d = 1
                /\ sub[1] = Canonical(d.y, d.m, 1)
                /\ sub[2] = Canonical(e[1], e[2], DaysIn(e[1], e[2]))

\* C17 witness: a quarterly walk whose period ends on the first of a
\* month made a last call with a sub-period that ends after the period
C17_Witness ==
    /\ LoopReturned
    /\ ret.arg.freq = "QS"
    /\ Len(ret.calls) = 2
    /\ strptime(ret.arg.params[2]).d = 1
    /\ strptime(ret.calls[2][1][2]) # strptime(ret.arg.params[2])
    /\ NotAfter(strptime(ret.arg.params[2]), strptime(ret.calls[2][1][2]))

\* C18: loop_plot_df calls the indicator exactly once per sub-period, in
\* chronological order, with the sub-period alone when
\* additional_func_args is None and with the sub-period followed by the
\* extra arguments in their order otherwise, the same on every call.
C18_OneCallPerSubPeriod ==
    LoopReturned =>
        LET start  == strptime(ret.arg.params[1])
            end    == strptime(ret.arg.params[2])
            firsts == FirstsIn(start, end, ret.arg.freq)
            n      == Len(ret.calls)
        IN  /\ n = Cardinality(firsts)
            /\ {ret.calls[k][1][1] : k \in 1..n}
                   = {Canonical(d.y, d.m, d.d) : d \in firsts}
            /\ \A k \in 1..(n - 1) :
                   /\ ret.calls[k][1][1] # ret.calls[k + 1][1][1]
                   /\ NotAfter(strptime(ret.calls[k][1][1]),
                               strptime(ret.calls[k + 1][1][1]))
            /\ \A k \in 1..n :
                   IF ret.arg.extra.given
                   THEN /\ Len(ret.calls[k]) = 1 + Len(ret.arg.extra.args)
                        /\ SubSeq(ret.calls[k], 2, Len(ret.calls[k]))
                               = ret.arg.extra.args
                   ELSE Len(ret.calls[k]) = 1

\* C18 witness: three calls were made, each with two extra arguments
C18_Witness ==
    /\ LoopReturned
    /\ ret.arg.extra.given
    /\ Len(ret.calls) = 3
    /\ Len(ret.calls[3]) = 3

\* C19: no value of the series is null: a sub-period for which the
\* indicator returned None has the value 0, every other result is there
\* unchanged; also when the indicator returns None every time.
C19_NoNullInSeries ==
    (ret.op = "loop_plot_df" /\ ret.status = "returned") =>
        /\ Len(ret.val) = Len(ret.calls)
        /\ \A k \in 1..Len(ret.val) :
               LET r == indicator_func(ret.arg.ind, ret.calls[k])
               IN  /\ ret.val[k].Value.kind = "value"
                   /\ r.kind = "none" => ret.val[k].Value.v = 0
                   /\ r.kind = "value" => ret.val[k].Value = r

\* C19 witness: an indicator that always returns None was run over three
\* sub-periods
C19_Witness ==
    /\ ret.op = "loop_plot_df"
    /\ ret.status = "returned"
    /\ ret.arg.ind.kind = "none"
    /\ Len(ret.val) = 3
    /\ \A k \in 1..3 : ret.val[k].Value = IndValue(0)

\* C20: loop_plot_team_df returns one row for each sub-period it passed
\* to the indicator, labelled by the start of the sub-period; a row has
\* one column for each team of the static team list, in its order; the
\* cell of a team for which the indicator returned no row is 0, the cell
\* of a team with a row holds its value, and no cell is null.
C20_TeamRows ==
    (ret.op = "loop_plot_team_df" /\ ret.status = "returned") =>
        LET teams == ret.arg.static.teams
        IN  /\ Len(ret.val) = Len(ret.calls)
            /\ \A k \in 1..Len(ret.val) :
                   LET row  == ret.val[k]
                       rows == team_indicator_func(ret.arg.ind, ret.calls[k]).rows
                   IN  /\ row.month = ret.calls[k][1][1]
                       /\ Len(row.cells) = Len(teams)
                       /\ \A j \in 1..Len(teams) :
                              LET found == {i \in 1..Len(rows) : rows[i].team = teams[j]}
                              IN  /\ row.cells[j].col = lower(teams[j]) \o ret.arg.col_suffix
                                  /\ row.cells[j].value.kind = "value"
                                  /\ found = {} => row.cells[j].value.v = 0
                                  /\ \A i \in found :
                                         /\ rows[i].value.kind = "value"
                                                => row.cells[j].value = rows[i].value
                                         /\ rows[i].value.kind = "none"
                                                => row.cells[j].value.v = 0

\* C20 witness: three rows of two team columns were returned, the
\* indicator having no row for the first team of the static list
C20_Witness ==
    /\ ret.op = "loop_plot_team_df"
    /\ ret.status = "returned"
    /\ ret.arg.static.teams = <<"East", "West">>
    /\ ret.arg.ind.kind = "rows"
    /\ ret.arg.ind.teams = {"West", "North"}
    /\ Len(ret.val) = 3
    /\ \A k \in 1..3 :
           /\ Len(ret.val[k].cells) = 2
           /\ ret.val[k].cells[1].value = IndValue(0)
           /\ ret.val[k].cells[2].value # IndValue(0)

---------------------------------------------------------------------------
(* Claims about the object and about the arguments of the caller *)

\* C21: db_filepath is set by the constructor and changed by no later
\* operation: after any sequence of calls it is the value given at
\* construction (the default of the class when none was given).
C21_PathFixedAtConstruction ==
    db_filepath = init_arg

\* C21 witness: an object constructed with a path of the caller's has
\* leaked a connection and returned from a looper
C21_Witness ==
    /\ init_arg = "other.db"
    /\ db_filepath = "other.db"
    /\ openConns > 0
    /\ ret.op = "loop_plot_team_df"
    /\ ret.status = "returned"

\* C22: no operation changes the params object of its caller: after
\* loop_plot_df, loop_plot_team_df, prev_month_dates, prev_quarter_dates
\* or an indicator that extends its parameter list returns, the object
\* is of the same kind and holds the same two bounds as before.
C22_CallerParamsUntouched ==
    (ret.op \in ArgMethods /\ ret.status = "returned") =>
        /\ ret.after = ret.arg.obj
        /\ Len(ret.after.items) = 2

\* C22 witness: a list of the caller's went through three turns of the
\* loop of loop_plot_df, each binding params to a new list
C22_Witness ==
    /\ ret.op = "loop_plot_df"
    /\ ret.arg.obj.kind = "list"
    /\ ret.val = 4
    /\ ret.after = ret.arg.obj

---------------------------------------------------------------------------
(* Claims about calls that run at the same time *)

\* the outcome of the call when it runs alone against the store
Alone(c, canOpen, rows) ==
    CASE c.op = "single_value_query" -> single_value_query(c.q, c.params, canOpen, rows)
      [] c.op = "fetchall_query" -> fetchall_query(c.q, c.params, canOpen, rows)
      [] c.op = "dataframe_query" -> dataframe_query(c.q, c.params, canOpen, rows)

\* C23: executor calls that run at the same time in different threads on
\* one object share no writable state: each works on a connection of its
\* own, which stays open until the call itself closes it, and each ends
\* as it would have ended running alone against the same store.
C23_ThreadsIsolated ==
    \A t \in ThreadIds :
        LET c == threads.calls[t]
        IN  /\ c.pc \in {"connected", "fetched"} =>
                   /\ c.conn \in 1..Len(threads.conns)
                   /\ threads.conns[c.conn]
            /\ \A u \in ThreadIds \ {t} :
                   c.conn # 0 => threads.calls[u].conn # c.conn
            /\ c.pc = "done" =>
                   LET alone == Alone(c, threads.canOpen, store)
                   IN  /\ c.status = alone.status
                       /\ c.val = alone.val

\* C23 witness: thread 1 connected after thread 2, and returned a value
\* of the store while thread 2 was still between its connect and its
\* close
C23_Witness ==
    /\ threads.calls[1].pc = "done"
    /\ threads.calls[1].status = "returned"
    /\ threads.calls[1].op = "single_value_query"
    /\ threads.calls[1].val = "1"
    /\ threads.calls[2].pc = "fetched"
    /\ threads.calls[2].conn = 1
    /\ threads.calls[1].conn = 2
    /\ openConns = 1

\* C24: voluntary_disenrolled_percent takes its denominator and its
\* numerator from two separate queries with no snapshot across them:
\* what it returns is the numerator as the store is at the second query
\* over the denominator as the first query found it; when the store was
\* not written in between that is at most 100, and when it was, the
\* result can be above 100, a ratio of no single state of the store.
C24_NoSnapshotAcrossCalls ==
    (ret.op = "voluntary_disenrolled_percent" /\ ret.status = "returned") =>
        /\ ret.arg.first # 0 =>
               ret.arg.second = count_rows(store, {"Voluntary"}, MonthOrder[2])
        /\ ret.val = IF ret.arg.first = 0 THEN 0
                     ELSE round_percent(ret.arg.second, ret.arg.first)
        /\ ~ret.arg.written =>
               /\ ret.arg.first
                      = count_rows(store, {"Voluntary", "Deceased"}, MonthOrder[2])
               /\ ret.val <= 10000

\* C24 witness: the store was written between the two queries and the
\* indicator returned 200 percent
C24_Witness ==
    /\ ret.op = "voluntary_disenrolled_percent"
    /\ ret.status = "returned"
    /\ ret.arg.written
    /\ ret.val = 20000
    /\ ret.arg.first = 1
    /\ ret.arg.second = 2

\* the denominator of the ratio among the values of the two queries
DenominatorOf(r) ==
    IF r.op \in {"voluntary_disenrolled_percent", "growth_rate"} THEN r.arg.first
    ELSE r.arg.second

\* C25: every ratio indicator guards its denominator: when the
\* denominator query gives 0 the indicator returns 0 and raises no
\* division-by-zero error.
C25_DenominatorGuarded ==
    (ret.op \in RatioIndicators /\ DenominatorOf(ret) = 0) =>
        /\ ret.status = "returned"
        /\ ret.val = 0

---------------------------------------------------------------------------
(* Claims about the text of the queries *)

\* C26: a value of the caller's that is no table or column identifier
\* reaches the database as a bound parameter only: the text of the query
\* is the text the method builds for the default of that value, whatever
\* the value is.
C26_ValuesOnlyBound ==
    ret.op \in SqlMethods =>
        ret.val.text = build_query(ret.op, ret.arg.params, ret.arg.table,
                                   ret.arg.date_col, SqlValues(ret.op)[1]).text

---------------------------------------------------------------------------
(* Claims about the walk of the loopers and its default window *)

\* the day after a day, as a text
DayAfter(dt) ==
    IF dt.d < DaysIn(dt.y, dt.m) THEN Canonical(dt.y, dt.m, dt.d + 1)
    ELSE IF dt.m < 12 THEN Canonical(dt.y, dt.m + 1, 1)
    ELSE Canonical(dt.y + 1, 1, 1)

\* each sub-period of the calls starts on the day after the one before
\* it ends
Contiguous(calls) ==
    \A k \in 1..(Len(calls) - 1) :
        calls[k + 1][1][1] = DayAfter(strptime(calls[k][1][2]))

\* C27: in both loopers, for either granularity and with or without
\* additional_func_args, the sub-periods passed to the indicator are
\* disjoint and contiguous: each starts on the day after the one before
\* it ends.
C27_SubPeriodsContiguous ==
    ret.op \in LooperOps => Contiguous(ret.calls)

\* what of C27 holds: the sub-periods of loop_plot_df are contiguous
C27_LoopPlotDfContiguous ==
    ret.op = "loop_plot_df" => Contiguous(ret.calls)

\* what of C27 holds: the sub-periods of loop_plot_team_df are contiguous
\* unless it walks quarters with additional_func_args
C27_TeamContiguousButQuartersWithArgs ==
    (ret.op = "loop_plot_team_df"
         /\ ~(ret.arg.freq = "QS" /\ ret.arg.extra.given))
        => Contiguous(ret.calls)

\* the first days of the n months that end with the month before the
\* month of a day, as texts, earliest first
MonthsEndingBefore(dt, n) ==
    [k \in 1..n |->
        LET ym == MonthsBefore(dt.y, dt.m, n + 1 - k)
        IN  Canonical(ym[1], ym[2], 1)]

\* the labels of the sub-periods of the calls, in order
LabelsOf(calls) == [k \in 1..Len(calls) |-> calls[k][1][1]]

\* C28: when a bound of params is missing, loop_plot_df and
\* loop_plot_team_df use a window that depends on the current month
\* only: on every day of a month, the 1st included, the monthly series
\* has the 13 first-of-month labels that end with the first day of the
\* month before the current one.
C28_DefaultWindowLabels ==
    (ret.op \in LooperOps /\ ret.status = "returned" /\ not_all(ret.arg.params)
         /\ ret.arg.freq = "MS" /\ ret.arg.read2 = ret.at)
        => LabelsOf(ret.calls) = MonthsEndingBefore(ret.at, 13)

\* what of C28 holds: on a day that is not the 1st of its month the
\* labels are those 13, and on the 1st there are 14, from one month
\* earlier
C28_DefaultWindowByDay ==
    (ret.op \in LooperOps /\ ret.status = "returned" /\ not_all(ret.arg.params)
         /\ ret.arg.freq = "MS" /\ ret.arg.read2 = ret.at)
        => LabelsOf(ret.calls)
               = MonthsEndingBefore(ret.at, IF ret.at.d = 1 THEN 14 ELSE 13)

---------------------------------------------------------------------------
(* Claims about the reporting windows taken together *)

\* two calls that read the same today, one right after the other
SameToday(a, b) ==
    /\ a.status = "returned"
    /\ b.status = "returned"
    /\ a.at = b.at

\* the later window starts on the day after the earlier one ends
Adjacent(earlier, later) == later.val[1] = DayAfter(strptime(earlier.val[2]))

\* the two calls are of these two utilities, in either order, and the
\* window of the first utility is adjacent to that of the second
AdjacentPair(a, b, first, second) ==
    /\ (a.op = first /\ b.op = second) => Adjacent(a, b)
    /\ (a.op = second /\ b.op = first) => Adjacent(b, a)

\* last_quarter asked for dates, not for the (q, yr) pair
DatesAsked(a) == a.op = "last_quarter" => a.arg[1] = FALSE

\* C29: for every today, consecutive reporting windows are adjacent
\* without gap or overlap: the end of last_month is the day before the
\* start of month_to_date, the end of last_quarter is the day before the
\* start of quarter_to_date, and last_three_months, last_six_months and
\* last_year end on the same day as last_month.
C29_WindowsAdjacent ==
    [][(SameToday(ret, ret') /\ DatesAsked(ret) /\ DatesAsked(ret')) =>
           /\ AdjacentPair(ret, ret', "last_month", "month_to_date")
           /\ AdjacentPair(ret, ret', "last_quarter", "quarter_to_date")
           /\ (ret.op \in WindowOps /\ ret'.op \in WindowOps) =>
                  ret.val[2] = ret'.val[2]]_vars

\* C29 witness: month_to_date was called in a January after the first, so
\* the window before it, last_month, has to end on the 31st of December of
\* the year before
C29_Witness ==
    /\ ret.op = "month_to_date"
    /\ ret.arg[1] = ret.at
    /\ ret.at.m = 1
    /\ ret.at.d > 1
    /\ DayAfter(Date(ret.at.y - 1, 12, 31)) = ret.val[1]

\* C30: both bounds returned by one call of month_to_date describe the
\* same instant, even when the clock advances between the two readings of
\* the current time: the returned start is the first day of the month that
\* contains the returned end.
C30_StartIsFirstOfEndsMonth ==
    ret.op = "month_to_date" =>
        LET end_date == strptime(ret.val[2])
        IN  ret.val[1] = Canonical(end_date.y, end_date.m, 1)

\* a call of month_to_date whose two readings fall on different days of
\* the same month keeps the start in the month of the end
C30_SameMonthStraddle ==
    (ret.op = "month_to_date" /\ ret.arg[1].m = ret.at.m) =>
        LET end_date == strptime(ret.val[2])
        IN  ret.val[1] = Canonical(end_date.y, end_date.m, 1)

====
